---- MODULE Spec2Model ----
(***************************************************************************)
(* Model of the task registries of the CAN bus tester (src/app/main.py):   *)
(* FaultInjectionManager and SignalChaserManager, their worker threads,    *)
(* and the callers of start/stop.  Every region of code that runs under a  *)
(* manager's lock is one atomic step; code between two lock regions is a   *)
(* step of its own, so callers and workers interleave as threads do.       *)
(***************************************************************************)
EXTENDS Integers, Sequences, FiniteSets, TLC

\* ------------------------------------------------------------------ bounds
MaxTasks == 2
MaxCount == 2
MaxEvents == 4
MaxRecordings == 2
MaxFactor == 3
MaxTime == 3
MaxPeriodic == 3
MaxLimit == 3
MaxBuses == 3

\* --------------------------------------------------------- program constants
MAX_CODES == 4096

\* decode_log: the most events the replay lists, the most points of a series
max_events == 2000
max_points == 5000

\* maxsize of the asyncio.Queue that set_loop creates: 0, which asyncio
\* reads as "no limit"
QueueMaxSize == 0

\* ------------------------------------------------------------- the universe
Null == -999

Callers == {"api"}
Keys == {"Speed", "Ghost"}
Mgrs == {"fault", "chaser"}
TaskIds == 1..MaxTasks

\* the threads that publish events: a task worker (tx and fault events) and
\* the transport's receive thread (rx events)
Producers == {"worker", "rx"}
Sockets == {"s1", "s2"}
Names == {"", "t1"}
\* the request threads of the start race
Starters == {"r1", "r2"}

NoRec == [id |-> 0, name |-> "", events |-> << >>, started_at |-> 0]
NoEvent == [n |-> 0, type |-> "none"]

\* cantools signals of the loaded DBC: minimum, maximum, initial are Null
\* when the DBC does not declare them, choices is the set of raw choice keys.
Sig(n, lo, hi, ini, ch, len) ==
    [name |-> n, minimum |-> lo, maximum |-> hi, initial |-> ini, choices |-> ch, length |-> len]

DbcMessages ==
    [Speed |-> << Sig("A", 1, 5, 2, {0, 7}, 4),
                  Sig("D", Null, Null, 2, {1, 3}, 2),
                  Sig("C", Null, Null, Null, {}, 3) >>]

\* Message.length of the DBC's messages, in bytes
MessageLengths == [Speed |-> 2]

\* the code lists a caller may pass to a code sweep
CodeLists == { << >>, << 16, 32 >> }

SetMin(S) == CHOOSE x \in S : \A y \in S : x <= y
SetMax(S) == CHOOSE x \in S : \A y \in S : x >= y

\* DBCManager.get_message_by_name: KeyError when the name is not in the DBC
MessageKnown(k) == k \in DOMAIN DbcMessages

MessageSignals(k) == DbcMessages[k]

\* SignalChaserManager._min_value
MinValue(signal) ==
    IF signal.minimum # Null THEN signal.minimum
    ELSE IF signal.initial # Null THEN signal.initial
    ELSE IF signal.choices # {} THEN SetMin(signal.choices)
    ELSE 0

\* a _max_value that prefers the initial value to the choices
MaxValueInitialFirst(signal) ==
    IF signal.maximum # Null THEN signal.maximum
    ELSE IF signal.initial # Null THEN signal.initial
    ELSE IF signal.choices # {} THEN SetMax(signal.choices)
    ELSE IF signal.length > 0 THEN 2 ^ signal.length - 1
    ELSE 1

\* SignalChaserManager._max_value
MaxValue(signal) ==
    IF signal.maximum # Null THEN signal.maximum
    ELSE IF signal.choices # {} THEN SetMax(signal.choices)
    ELSE IF signal.initial # Null THEN signal.initial
    ELSE IF signal.length > 0 THEN 2 ^ signal.length - 1
    ELSE 1

\* byte_length of _run_code_scan: message.length, 8 when that is missing or 0
ByteLength(k) == IF MessageLengths[k] <= 0 THEN 8 ELSE MessageLengths[k]

\* SignalChaserManager._format_code: the text of a code, held as
\* << base, minimal number of digits, value >>
FormatCode(code, hex_width) ==
    IF hex_width = 1 THEN << "dec", 1, code >>
    ELSE << "hex", IF hex_width > 2 THEN hex_width ELSE 2, code >>

\* the payload _run_signal_scan builds for one tick: every signal at
\* _min_value, then the signal at `index` overwritten with its _max_value
ScanPayload(signals, index) ==
    [j \in 1..Len(signals) |->
        IF j = index + 1 THEN MaxValue(signals[j]) ELSE MinValue(signals[j])]

\* ------------------------------------------------------------------- state
VARIABLES
    configured,   \* CANManager._config is set (get_status()["configured"])
    tasks,        \* tasks[m][k]: the task registered under k in manager m, 0 if none
    tdef,         \* tdef[t]: what task t was started with (kind, key, count, items)
    info,         \* info[t]: the mutable status fields of task t's registry entry
    stopEv,       \* stopEv[t]: task t's threading.Event
    wpc,          \* wpc[t]: position of task t's worker thread, "none" if t does not exist
    wi,           \* wi[t]: the worker's loop variable (i of the fault loop, index of a sweep)
    cpc,          \* cpc[c]: position of caller c inside start/stop
    cop,          \* cop[c]: the call caller c is making
    ctask,        \* ctask[c]: the task a stop call captured
    cres,         \* cres[c]: outcome of caller c's last finished call
    ticks,        \* ticks[t]: ticks a fault worker has begun
    txEvents,     \* txEvents[t]: "tx" notifications a fault worker has emitted
    failedTicks,  \* failedTicks[t]: ticks of a fault worker whose encode or send raised
    completions,  \* completions[t]: "completed" notifications the worker has emitted
    postStopSends,\* postStopSends[t]: transport sends performed after stopEv[t] was set
    prevSel,      \* prevSel[t]: index the previous tick selected, Null before the first tick
    payload,      \* payload[t]: signal values of the last frame a signal sweep encoded
    bphase,       \* the broadcaster: "new" (no queue yet), "running", "shutdown" (shutdown() returned)
    queue,        \* MessageBroadcaster._queue: payloads enqueued and not yet drained
    flusher,      \* who runs broadcast(): "none", "loop" (_broadcast_loop), "shutdown", "ended"
    fpc,          \* position of the flusher: "sleep", or "sending" inside broadcast()
    batch,        \* the batch drained from the queue that broadcast() is delivering
    todo,         \* connections broadcast()'s loop has not reached yet
    dead,         \* broadcast()'s local list of connections whose send failed
    connections,  \* MessageBroadcaster._connections
    seen,         \* websockets that have connected at some time
    delivered,    \* delivered[s]: the messages websocket s has received, in order
    active,       \* RecordingManager._active, NoRec when no recording is open
    disk,         \* the recordings persisted in the base directory
    ppc,          \* ppc[p]: position of producer p inside its event handler
    pend,         \* pend[p]: the payload producer p has built
    nextEv,       \* number of the next payload to be built (arrival rank at the bus)
    nextRec,      \* number of the next recording identifier
    lres,         \* outcome of the last start_log / stop_log request
    appendLog,    \* the events append_event stored since the open recording was started
    dropped,      \* events append_event was called with while no recording was open
    openLog,      \* the events published since the open recording was started
    now,          \* the reading of the clock: time.time(), and the time stamp of a file write
    mtime,        \* mtime[i]: st_mtime of the file of recording i, Null while there is none
    listing,      \* what the last list_recordings() returned
    got,          \* what the last get_recording() returned
    periodic,     \* CANManager._periodic_tasks: key -> cyclic send task, NoCyclic if none
    cyclicLive,   \* the cyclic send tasks of the bus that have not been stopped
    nextCyclic,   \* number of the next cyclic send task the bus creates
    pres,         \* outcome of the last send_message / stop_message request
    lockOwner,    \* the thread inside `with self._lock` of the registry followed by statement
    lwpc,         \* the statement its worker thread is at
    lcpc,         \* the statement its caller is at
    lreq,         \* the kind of task the caller's start asks for
    lkind,        \* the kind of the task its worker runs
    lreg,         \* the task's key is in self._tasks
    linfo,        \* the task's info dict
    lstop,        \* the task's stop event
    li,           \* the worker's loop variable
    snap,         \* the status copy the caller's last call returned
    io,           \* the transport send or notifier call of the last step
    rpc,          \* rpc[s]: the statement of start() the request thread s is at
    rkey,         \* rkey[s]: the key of thread s's start request
    rres,         \* rres[s]: outcome of thread s's start request
    rtasks,       \* rtasks[k]: the thread whose entry self._tasks holds under k, "none" if none
    rthreads,     \* the worker threads started: who started each, and for which key
    osignal,      \* the declared range of the target signal of the last out-of-range injection
    omult,        \* its range multiplier
    ovalue,       \* the value it gave the target signal
    oframe,       \* the frame it returned: "encoded", or "raw" for the all-0xFF payload
    broken,       \* the recordings whose file a failed stop() left truncated
    persistFailed, \* the recordings for which a stop() has failed to persist
    bus,          \* CANManager._bus: the number of the bus object, 0 for None
    openBuses,    \* the bus objects opened and not shut down
    nextBus,      \* number of the next bus object can.Bus() makes
    canpc,        \* configure inside its lock: "idle", "open" before can.Bus(), "store" after it
    cfgres,       \* outcome of the last configure()
    cstatus,      \* what the last get_status() reported
    sres,         \* outcome of the last CANManager.send
    rxStarted,    \* CANManager._rx_thread_started
    rxStarts,     \* how often _rx_thread.start() was called
    stopSet,      \* CANManager._stop_event is set
    rxpc,         \* the statement the receive thread is at, "none" before its start
    rxBus,        \* the bus the receive loop fetched for this iteration
    rxFrame,      \* the bus the message it holds came from, 0 when it holds none
    reopened,     \* shutdown() has been called and a later configure() has opened a bus
    lateFrames,   \* messages handed to the callbacks after the stop event was set
    rlog,         \* the persisted document the last decode request read
    replay        \* the response of the last decode request

vars == << configured, tasks, tdef, info, stopEv, wpc, wi, cpc, cop, ctask, cres,
           ticks, txEvents, failedTicks, completions, postStopSends, prevSel, payload,
           bphase, queue, flusher, fpc, batch, todo, dead, connections, seen, delivered,
           active, disk, ppc, pend, nextEv, nextRec, lres, appendLog, dropped, openLog,
           now, mtime, listing, got, periodic, cyclicLive, nextCyclic, pres,
           lockOwner, lwpc, lcpc, lreq, lkind, lreg, linfo, lstop, li, snap, io, rpc, rkey, rres, rtasks, rthreads,
           osignal, omult, ovalue, oframe,
           broken, persistFailed,
           bus, openBuses, nextBus, canpc, cfgres, cstatus, sres, rxStarted, rxStarts, stopSet, rxpc, rxBus, rxFrame, reopened, lateFrames,
           rlog, replay >>

taskVars == << tdef, info, stopEv, wpc, wi >>
ghostVars == << ticks, txEvents, failedTicks, completions, postStopSends, prevSel, payload >>
callerVars == << cpc, cop, ctask, cres >>

\* the event bus and the recording store; the registry specification does
\* not follow the events its workers publish
flushVars == << flusher, fpc, batch, todo, dead >>
subVars == << connections, seen, delivered >>
recVars == << active, disk, nextRec, lres, appendLog, dropped, openLog, mtime >>
prodVars == << ppc, pend >>
\* the repeat tasks, which CANManager keeps and the bus runs
periodicVars == << periodic, cyclicLive, nextCyclic, pres >>

\* one registry followed statement by statement
lockVars == << lockOwner, lwpc, lcpc, lreq, lkind, lreg, linfo, lstop, li, snap, io >>

\* the replay engine works on a document read from disk
replayVars == << rlog, replay >>

\* two request threads inside start() of one registry
raceVars == << rpc, rkey, rres, rtasks, rthreads >>

\* the out-of-range injection of one tick
rangeVars == << osignal, omult, ovalue, oframe >>

\* what a failed persist leaves behind
persistVars == << broken, persistFailed >>

\* the transport: CANManager with its receive thread
canVars == << bus, openBuses, nextBus, canpc, cfgres, cstatus, sres, rxStarted, rxStarts, stopSet, rxpc, rxBus, rxFrame, reopened, lateFrames >>

\* the components followed apart from the rest
moreVars == << raceVars, rangeVars, persistVars, canVars >>

\* everything but the components followed apart
coreVars == << configured, tasks, taskVars, callerVars, ghostVars, bphase, queue, flushVars,
              subVars, recVars, prodVars, nextEv, now, listing, got, replayVars,
              periodicVars, lockVars >>

\* what neither a registry nor the bus nor the recorder writes: the clock,
\* the results of the store's queries, the replay
asideVars == << now, listing, got, replayVars, periodicVars, lockVars, moreVars >>
busVars == << bphase, queue, flushVars, subVars, recVars, prodVars, nextEv, asideVars >>

\* what the recording store's stop() leaves alone outside the bus and the store
notPersistVars == << configured, tasks, taskVars, callerVars, ghostVars, now, listing, got,
                     replayVars, periodicVars, lockVars, raceVars, rangeVars, canVars >>

\* the task registries, which the bus specification does not follow
registryVars == << configured, tasks, taskVars, callerVars, ghostVars, asideVars >>

\* no injection yet
NoRange == [minimum |-> 0, maximum |-> 0, declared |-> FALSE]

NoCyclic == [task |-> 0, period |-> 0]

\* get_recording's None
NotFound == [id |-> 0]

NoLog == [count |-> 0, decode |-> "none"]
NoReplay == [events |-> << >>, events_shown |-> 0, events_total |-> 0, series |-> << >>]

NoDef == [kind |-> "none", key |-> "none", count |-> 0, items |-> << >>]
NoInfo == [sentCount |-> 0, currentSignal |-> "None", currentIndex |-> Null, currentCode |-> << >>]
NoOp == [op |-> "none", mgr |-> "none", key |-> "none", mode |-> "none", interval |-> 0,
         count |-> 0, codes |-> << >>, target |-> ""]

NoSnap == [by |-> "none", info |-> NoInfo]
NoIO == [by |-> "none", kind |-> "none"]

MgrOf(kind) == IF kind = "fault" THEN "fault" ELSE "chaser"

Init ==
    /\ configured = FALSE
    /\ tasks = [m \in Mgrs |-> [k \in Keys |-> 0]]
    /\ tdef = [t \in TaskIds |-> NoDef]
    /\ info = [t \in TaskIds |-> NoInfo]
    /\ stopEv = [t \in TaskIds |-> FALSE]
    /\ wpc = [t \in TaskIds |-> "none"]
    /\ wi = [t \in TaskIds |-> 0]
    /\ cpc = [c \in Callers |-> "idle"]
    /\ cop = [c \in Callers |-> NoOp]
    /\ ctask = [c \in Callers |-> 0]
    /\ cres = [c \in Callers |-> "none"]
    /\ ticks = [t \in TaskIds |-> 0]
    /\ txEvents = [t \in TaskIds |-> 0]
    /\ failedTicks = [t \in TaskIds |-> 0]
    /\ completions = [t \in TaskIds |-> 0]
    /\ postStopSends = [t \in TaskIds |-> 0]
    /\ prevSel = [t \in TaskIds |-> Null]
    /\ payload = [t \in TaskIds |-> << >>]
    /\ bphase = "new"
    /\ queue = << >>
    /\ flusher = "none"
    /\ fpc = "sleep"
    /\ batch = << >>
    /\ todo = {}
    /\ dead = {}
    /\ connections = {}
    /\ seen = {}
    /\ delivered = [s \in Sockets |-> << >>]
    /\ active = NoRec
    /\ disk = {}
    /\ ppc = [p \in Producers |-> "idle"]
    /\ pend = [p \in Producers |-> NoEvent]
    /\ nextEv = 1
    /\ nextRec = 1
    /\ lres = "none"
    /\ appendLog = << >>
    /\ dropped = {}
    /\ openLog = {}
    /\ now = 0
    /\ mtime = [i \in 1..MaxRecordings |-> Null]
    /\ listing = << >>
    /\ got = NotFound
    /\ periodic = [k \in Keys |-> NoCyclic]
    /\ cyclicLive = {}
    /\ nextCyclic = 1
    /\ pres = "none"
    /\ lockOwner = "free"
    /\ lwpc = "none"
    /\ lcpc = "idle"
    /\ lreq = "none"
    /\ lkind = "none"
    /\ lreg = FALSE
    /\ linfo = NoInfo
    /\ lstop = FALSE
    /\ li = 0
    /\ snap = NoSnap
    /\ io = NoIO
    /\ rpc = [s \in Starters |-> "idle"]
    /\ rkey = [s \in Starters |-> "none"]
    /\ rres = [s \in Starters |-> "none"]
    /\ rtasks = [k \in Keys |-> "none"]
    /\ rthreads = {}
    /\ osignal = NoRange
    /\ omult = 0
    /\ ovalue = 0
    /\ oframe = "none"
    /\ broken = {}
    /\ persistFailed = {}
    /\ bus = 0
    /\ openBuses = {}
    /\ nextBus = 1
    /\ canpc = "idle"
    /\ cfgres = "none"
    /\ cstatus = "none"
    /\ sres = "none"
    /\ rxStarted = FALSE
    /\ rxStarts = 0
    /\ stopSet = FALSE
    /\ rxpc = "none"
    /\ rxBus = 0
    /\ rxFrame = 0
    /\ reopened = FALSE
    /\ lateFrames = 0
    /\ rlog = NoLog
    /\ replay = NoReplay

\* ------------------------------------------------------------- transport
\* CANManager.configure succeeded: a bus is open
Configure ==
    /\ ~configured
    /\ configured' = TRUE
    /\ UNCHANGED << tasks, taskVars, callerVars, ghostVars >>
    /\ UNCHANGED busVars

\* ---------------------------------------------------------- repeat tasks
Periods == {1, 2}

\* CANManager.stop_periodic: pop the key's task, and stop it if there was one
AfterStopPeriodic(key) == [periodic EXCEPT ![key] = NoCyclic]
StillLive(key) == cyclicLive \ {periodic[key].task}

\* send_message with a period: encode, CANManager.start_periodic (the bus is
\* required; a task the key already has is stopped, whatever it is, and
\* bus.send_periodic makes the new one)
SendPeriodic(key, period, encodes) ==
    /\ IF ~encodes
         THEN /\ pres' = "EncodeError"
              /\ UNCHANGED << periodic, cyclicLive, nextCyclic >>
       ELSE IF ~configured
         THEN /\ pres' = "NotConfigured"
              /\ UNCHANGED << periodic, cyclicLive, nextCyclic >>
       ELSE /\ nextCyclic <= MaxPeriodic
            /\ periodic' = [AfterStopPeriodic(key) EXCEPT
                                ![key] = [task |-> nextCyclic, period |-> period]]
            /\ cyclicLive' = StillLive(key) \cup {nextCyclic}
            /\ nextCyclic' = nextCyclic + 1
            /\ pres' = "periodic"
    /\ UNCHANGED << configured, tasks, taskVars, callerVars, ghostVars >>
    /\ UNCHANGED << bphase, queue, flushVars, subVars, recVars, prodVars, nextEv >>
    /\ UNCHANGED << now, listing, got, replayVars, lockVars, moreVars >>

\* stop_message: CANManager.stop_periodic, "stopped" whether or not the key
\* had a task
StopMessage(key) ==
    /\ periodic' = AfterStopPeriodic(key)
    /\ cyclicLive' = StillLive(key)
    /\ pres' = "stopped"
    /\ UNCHANGED nextCyclic
    /\ UNCHANGED << configured, tasks, taskVars, callerVars, ghostVars >>
    /\ UNCHANGED << bphase, queue, flushVars, subVars, recVars, prodVars, nextEv >>
    /\ UNCHANGED << now, listing, got, replayVars, lockVars, moreVars >>

\* ------------------------------------------------------- callers: start
\* the target signals a request may name: one of the DBC, one that no
\* message has
Targets == {"A", "X"}

\* A fault test of mode "fault" is of a type without a target signal,
\* "out-of-range" has one.  A code sweep of mode "decimal" is the one with
\* source "excel-decimal" and a target signal.
StartInputs ==
    { [op |-> "start", mgr |-> "fault", key |-> k, mode |-> "fault", interval |-> iv,
       count |-> n, codes |-> << >>, target |-> ""] : k \in Keys, iv \in {0, 1}, n \in {0, MaxCount} }
    \cup
    { [op |-> "start", mgr |-> "fault", key |-> k, mode |-> "out-of-range", interval |-> 1,
       count |-> MaxCount, codes |-> << >>, target |-> g] : k \in Keys, g \in Targets }
    \cup
    { [op |-> "start", mgr |-> "chaser", key |-> k, mode |-> "signals", interval |-> iv,
       count |-> 0, codes |-> << >>, target |-> ""] : k \in Keys, iv \in {0, 1} }
    \cup
    { [op |-> "start", mgr |-> "chaser", key |-> k, mode |-> "codes", interval |-> iv,
       count |-> 0, codes |-> cs, target |-> ""] : k \in Keys, iv \in {0, 1}, cs \in CodeLists }
    \cup
    { [op |-> "start", mgr |-> "chaser", key |-> k, mode |-> "decimal", interval |-> 1,
       count |-> 0, codes |-> << 16, 32 >>, target |-> g] : k \in Keys, g \in Targets }

\* the checks of start() that run before the registry lookup
StartRejects(call) ==
    \/ call.interval <= 0
    \/ call.mgr = "fault" /\ call.count <= 0

\* a lookup that asks whether the registry holds any task at all
KeyPresentAnyKey(m, k) == \E k2 \in Keys : tasks[m][k2] # 0

\* the registry lookup of start() and stop(), under the manager's lock
KeyPresent(m, k) == tasks[m][k] # 0

Finish(c, result) ==
    /\ cpc' = [cpc EXCEPT ![c] = "idle"]
    /\ cres' = [cres EXCEPT ![c] = result]
    /\ cop' = [cop EXCEPT ![c] = NoOp]
    /\ ctask' = [ctask EXCEPT ![c] = 0]

\* FaultInjectionManager.start / SignalChaserManager.start up to the end of
\* the first lock region: validation, "already running" check, mode dispatch
StartCall(c, call) ==
    /\ cpc[c] = "idle"
    /\ IF StartRejects(call)
         THEN Finish(c, "InvalidParameter")
       ELSE IF KeyPresent(call.mgr, call.key)
         THEN Finish(c, "AlreadyRunning")
       ELSE IF call.mode \in {"codes", "decimal"} /\ call.codes = << >>
         THEN Finish(c, "InvalidParameter")
       ELSE /\ cpc' = [cpc EXCEPT ![c] = "start_insert"]
            /\ cop' = [cop EXCEPT ![c] = call]
            /\ cres' = [cres EXCEPT ![c] = "none"]
            /\ UNCHANGED ctask
    /\ UNCHANGED << configured, tasks, taskVars, ghostVars >>
    /\ UNCHANGED busVars

\* the items a sweep iterates: the message's signals, or the given codes
ItemsOf(call) ==
    IF call.mode = "signals" THEN MessageSignals(call.key)
    ELSE IF call.mode \in {"codes", "decimal"} THEN call.codes
    ELSE << >>

\* `target_signal not in signal_names`
SignalKnown(k, name) == \E j \in DOMAIN MessageSignals(k) : MessageSignals(k)[j].name = name

\* the requests whose target signal start() looks up: those of
\* _start_code_scan_decimal.  FaultInjectionManager.start hands its
\* target_signal to the worker unread.
TargetChecked(call) == call.mode = "decimal"

\* why the second half of start() raises, "ok" when it does not
ResolveResult(call) ==
    IF ~MessageKnown(call.key) THEN "NotFound"
    ELSE IF call.mode = "signals" /\ Len(MessageSignals(call.key)) = 0 THEN "NotFound"
    ELSE IF TargetChecked(call) /\ ~SignalKnown(call.key, call.target) THEN "NotFound"
    ELSE IF ~configured THEN "NotReady"
    ELSE IF call.mode \in {"codes", "decimal"} /\ Len(call.codes) > MAX_CODES
      THEN "InvalidParameter"
    ELSE "ok"

\* the info dict start() builds: a decimal code sweep shows its target
\* signal from the start
InitialInfo(call) ==
    IF call.mode = "decimal" THEN [NoInfo EXCEPT !.currentSignal = call.target] ELSE NoInfo

\* the kind of task a request makes
KindOf(call) == IF call.mgr = "fault" THEN "fault" ELSE call.mode

\* a start that registers the entry before it reads the transport status
RegistersBeforeStatus(call) == ResolveResult(call) \in {"ok", "NotReady"}

\* start() builds and registers the entry only after every check has passed
Registers(call) == ResolveResult(call) = "ok"

\* a task object that no thread runs and no registry holds any more
Gone(t) ==
    /\ wpc[t] \in {"none", "done"}
    /\ \A m \in Mgrs, k \in Keys : tasks[m][k] # t
    /\ \A c \in Callers : ctask[c] # t

FreshTask == CHOOSE t \in TaskIds : Gone(t) /\ \A u \in TaskIds : Gone(u) => t <= u

\* start() after the lookup: resolve the message, read the transport status,
\* build the thread and the entry, register it under the lock, start the
\* thread and return a copy of the status
StartInsert(c) ==
    /\ cpc[c] = "start_insert"
    /\ LET call == cop[c]
           t == FreshTask
       IN IF ~Registers(call)
            THEN /\ Finish(c, ResolveResult(call))
                 /\ UNCHANGED << tasks, taskVars, ghostVars >>
          ELSE /\ \E u \in TaskIds : Gone(u)
               /\ tasks' = [tasks EXCEPT ![call.mgr][call.key] = t]
               /\ tdef' = [tdef EXCEPT ![t] = [kind |-> KindOf(call), key |-> call.key,
                                               count |-> call.count, items |-> ItemsOf(call)]]
               /\ info' = [info EXCEPT ![t] = InitialInfo(call)]
               /\ stopEv' = [stopEv EXCEPT ![t] = FALSE]
               /\ wpc' = [wpc EXCEPT ![t] = "check"]
               /\ wi' = [wi EXCEPT ![t] = 0]
               /\ completions' = [completions EXCEPT ![t] = 0]
               /\ Finish(c, IF ResolveResult(call) = "ok" THEN "started" ELSE ResolveResult(call))
               /\ UNCHANGED << ticks, txEvents, failedTicks, postStopSends, prevSel, payload >>
    /\ UNCHANGED configured
    /\ UNCHANGED busVars

\* -------------------------------------------------------- callers: stop
StopInputs == { [op |-> "stop", mgr |-> m, key |-> k, mode |-> "none", interval |-> 0,
                 count |-> 0, codes |-> << >>, target |-> ""] : m \in Mgrs, k \in Keys }

\* stop(): lookup under the lock ("not task" raises), then stop_event.set()
StopCall(c, call) ==
    /\ cpc[c] = "idle"
    /\ IF ~KeyPresent(call.mgr, call.key)
         THEN /\ Finish(c, "NotRunning")
              /\ UNCHANGED stopEv
       ELSE /\ ctask' = [ctask EXCEPT ![c] = tasks[call.mgr][call.key]]
            /\ stopEv' = [stopEv EXCEPT ![tasks[call.mgr][call.key]] = TRUE]
            /\ cpc' = [cpc EXCEPT ![c] = "stop_join"]
            /\ cop' = [cop EXCEPT ![c] = call]
            /\ cres' = [cres EXCEPT ![c] = "none"]
    /\ UNCHANGED << configured, tasks, tdef, info, wpc, wi, ghostVars >>
    /\ UNCHANGED busVars

\* the entry e leaves the registry: its status dict is garbage, and so is the
\* whole task object when its thread has ended
Dropped(e) ==
    /\ info' = [t \in TaskIds |-> IF t = e THEN NoInfo ELSE info[t]]
    /\ tdef' = [t \in TaskIds |-> IF t = e /\ wpc[t] = "done" THEN NoDef ELSE tdef[t]]
    /\ stopEv' = [t \in TaskIds |-> IF t = e /\ wpc[t] = "done" THEN FALSE ELSE stopEv[t]]

\* a stop that keeps the entry of a worker it could not join
PoppedOnlyIfExited(m, k) ==
    IF tasks[m][k] # 0 /\ wpc[tasks[m][k]] # "done" THEN tasks ELSE [tasks EXCEPT ![m][k] = 0]

\* the registry after stop()'s final lock region: _tasks.pop(message_name, None)
Popped(m, k) == [tasks EXCEPT ![m][k] = 0]

\* a join without a timeout
JoinWithoutTimeout(t) == wpc[t] = "done"

\* task["thread"].join(timeout=1.0) returns when the thread has exited or
\* when the timeout has elapsed, whichever is first
JoinReturns(t) == wpc[t] = "done" \/ TRUE

\* stop() from the join on: the join, then the pop under the lock and the
\* return of the status copy
StopJoinPop(c) ==
    /\ cpc[c] = "stop_join"
    /\ JoinReturns(ctask[c])
    /\ tasks' = Popped(cop[c].mgr, cop[c].key)
    /\ Dropped(tasks[cop[c].mgr][cop[c].key])
    /\ Finish(c, "stopped")
    /\ UNCHANGED << configured, wpc, wi, ghostVars >>
    /\ UNCHANGED busVars

\* ---------------------------------------------------------------- workers
NumItems(t) == Len(tdef[t].items)

\* the entry a worker's status update finds: self._tasks.get(message_name)
EntryOf(t) == tasks[MgrOf(tdef[t].kind)][tdef[t].key]

\* a loop that never looks at the stop event
LoopExitsIgnoringStop(t, i) == tdef[t].kind = "fault" /\ i >= tdef[t].count

\* a fault loop that runs one iteration too many
LoopExitsOffByOne(t, i) ==
    \/ stopEv[t]
    \/ tdef[t].kind = "fault" /\ i > tdef[t].count

\* the loop head of a worker: `while not stop_event.is_set()` of a sweep,
\* `for i in range(count): if stop_event.is_set(): break` of a fault test
LoopExits(t, i) ==
    \/ stopEv[t]
    \/ tdef[t].kind = "fault" /\ i >= tdef[t].count

\* where a worker goes when its loop is over
AfterLoop(t) == IF tdef[t].kind = "fault" THEN "cleanup" ELSE "final"

\* a tick begins: the loop head let the worker into the loop body
BeginTick(t) ==
    /\ wpc' = [wpc EXCEPT ![t] = "tick"]
    /\ ticks' = [ticks EXCEPT ![t] = IF tdef[t].kind = "fault" THEN @ + 1 ELSE @]

\* the thread's first pass through the loop head
WorkerCheck(t) ==
    /\ wpc[t] = "check"
    /\ IF LoopExits(t, wi[t])
         THEN /\ wpc' = [wpc EXCEPT ![t] = AfterLoop(t)]
              /\ UNCHANGED ticks
       ELSE BeginTick(t)
    /\ UNCHANGED << configured, tasks, tdef, info, stopEv, wi, callerVars,
                    txEvents, failedTicks, completions, postStopSends, prevSel, payload >>
    /\ UNCHANGED busVars

\* the hex_width a code sweep passes to _update_current_code
HexWidth(t) == IF tdef[t].kind = "decimal" THEN 1 ELSE ByteLength(tdef[t].key) * 2

\* the status fields one successful tick writes, under the lock:
\* _update_progress, _update_current_signal, _update_current_code
TickInfo(t, old) ==
    IF tdef[t].kind = "fault" THEN [old EXCEPT !.sentCount = wi[t] + 1]
    ELSE IF tdef[t].kind = "signals"
      THEN [old EXCEPT !.currentSignal = tdef[t].items[wi[t] + 1].name]
    ELSE [old EXCEPT !.currentIndex = wi[t],
                     !.currentCode = FormatCode(tdef[t].items[wi[t] + 1], HexWidth(t))]

\* a loop that a failed tick ends
AfterTickAbortOnFailure(t, sent) == IF sent THEN "wait" ELSE AfterLoop(t)

\* where the worker is after the tick's try block: the `except Exception`
\* logs, and the loop goes on to its wait
AfterTick(t, sent) == "wait"

\* the body of one tick: build the frame (for a signal sweep the payload of
\* _run_signal_scan), CANManager.send, notifier "tx", then the status update
\* under the lock.  An encode or transport error skips the rest of the tick.
WorkerTick(t, ok) ==
    /\ wpc[t] = "tick"
    /\ prevSel' = [prevSel EXCEPT ![t] = wi[t]]
    /\ payload' = [payload EXCEPT ![t] =
                      IF tdef[t].kind = "signals" THEN ScanPayload(tdef[t].items, wi[t]) ELSE @]
    /\ wpc' = [wpc EXCEPT ![t] = AfterTick(t, ok /\ configured)]
    /\ IF ok /\ configured
         THEN /\ txEvents' = [txEvents EXCEPT ![t] = IF tdef[t].kind = "fault" THEN @ + 1 ELSE @]
              /\ postStopSends' = [postStopSends EXCEPT ![t] = IF stopEv[t] THEN @ + 1 ELSE @]
              /\ info' = IF EntryOf(t) # 0
                           THEN [info EXCEPT ![EntryOf(t)] = TickInfo(t, @)]
                         ELSE info
              /\ UNCHANGED failedTicks
       ELSE /\ failedTicks' = [failedTicks EXCEPT ![t] = IF tdef[t].kind = "fault" THEN @ + 1 ELSE @]
            /\ UNCHANGED << txEvents, postStopSends, info >>
    /\ UNCHANGED << configured, tasks, tdef, stopEv, wi, callerVars, ticks, completions >>
    /\ UNCHANGED busVars

\* a sweep that advances by two
NextIndexSkipping(t) ==
    IF tdef[t].kind = "fault" THEN wi[t] + 1 ELSE (wi[t] + 2) % NumItems(t)

\* the loop variable of the next tick
NextIndex(t) ==
    IF tdef[t].kind = "fault" THEN wi[t] + 1 ELSE (wi[t] + 1) % NumItems(t)

\* `if stop_event.wait(interval_seconds): break`, the loop variable advances,
\* and the loop head is passed again
WorkerWait(t) ==
    /\ wpc[t] = "wait"
    /\ IF LoopExits(t, NextIndex(t))
         THEN /\ wpc' = [wpc EXCEPT ![t] = AfterLoop(t)]
              /\ UNCHANGED << wi, ticks >>
       ELSE /\ BeginTick(t)
            /\ wi' = [wi EXCEPT ![t] = NextIndex(t)]
    /\ UNCHANGED << configured, tasks, tdef, info, stopEv, callerVars,
                    txEvents, failedTicks, completions, postStopSends, prevSel, payload >>
    /\ UNCHANGED busVars

\* the thread of t ends: its locals are gone, and so is the task object
\* unless the registry still holds it
Retire(t) ==
    /\ wpc' = [wpc EXCEPT ![t] = "done"]
    /\ tdef' = [tdef EXCEPT ![t] = IF EntryOf(t) = t THEN @ ELSE NoDef]
    /\ stopEv' = [stopEv EXCEPT ![t] = IF EntryOf(t) = t THEN @ ELSE FALSE]
    /\ wi' = [wi EXCEPT ![t] = 0]
    /\ ticks' = [ticks EXCEPT ![t] = 0]
    /\ txEvents' = [txEvents EXCEPT ![t] = 0]
    /\ failedTicks' = [failedTicks EXCEPT ![t] = 0]
    /\ postStopSends' = [postStopSends EXCEPT ![t] = 0]
    /\ prevSel' = [prevSel EXCEPT ![t] = Null]
    /\ payload' = [payload EXCEPT ![t] = << >>]

\* a sweep's last statement: _update_current_signal(name, None) or
\* _update_current_code(name, None, None, width, None)
FinalInfo(t, old) ==
    IF tdef[t].kind = "signals" THEN [old EXCEPT !.currentSignal = "None"]
    ELSE [old EXCEPT !.currentIndex = Null, !.currentCode = << >>]

SweepFinal(t) ==
    /\ wpc[t] = "final"
    /\ info' = IF EntryOf(t) # 0
                 THEN [info EXCEPT ![EntryOf(t)] = FinalInfo(t, @)]
               ELSE info
    /\ Retire(t)
    /\ UNCHANGED << configured, tasks, callerVars, completions >>
    /\ UNCHANGED busVars

\* a `finally` that leaves the registry as it is
UnregisteredKept(t) == tasks

\* the registry after the `finally` of _run_fault_test: _tasks.pop(message_name, None)
Unregistered(t) == [tasks EXCEPT !["fault"][tdef[t].key] = 0]

FaultCleanup(t) ==
    /\ wpc[t] = "cleanup"
    /\ tasks' = Unregistered(t)
    /\ info' = [u \in TaskIds |-> IF u = EntryOf(t) THEN NoInfo ELSE info[u]]
    /\ wpc' = [wpc EXCEPT ![t] = "notify"]
    /\ UNCHANGED << configured, tdef, stopEv, wi, callerVars, ghostVars >>
    /\ UNCHANGED busVars

\* _notify_completed, after the lock is released; the thread ends
FaultNotifyCompleted(t) ==
    /\ wpc[t] = "notify"
    /\ completions' = [completions EXCEPT ![t] = @ + 1]
    /\ Retire(t)
    /\ UNCHANGED << configured, tasks, info, callerVars >>
    /\ UNCHANGED busVars

\* ------------------------------------------- one registry, by statement
\* FaultInjectionManager and SignalChaserManager once more, for one key,
\* with every statement that matters to the lock a step of its own: a
\* `with self._lock` block is entered in one step and left in a later one.
\* The caller starts a task only when no thread of an earlier task is left.
notLockVars == << configured, tasks, taskVars, callerVars, ghostVars, bphase, queue, flushVars,
                  subVars, recVars, prodVars, nextEv, now, listing, got, replayVars,
                  periodicVars, moreVars >>

LockKinds == {"fault", "codes"}
LockKey == "Speed"
LockCodes == << 16, 32 >>

\* `with self._lock:` is entered
Enter(th) == lockOwner = "free" /\ lockOwner' = th

\* the loop head of _run_fault_test / _run_code_scan
RunHead ==
    /\ lwpc = "head"
    /\ IF lkind = "fault"
         THEN /\ lwpc' = IF lstop \/ li >= MaxCount THEN "pop_acquire" ELSE "send"
              /\ UNCHANGED li
       ELSE IF lstop
         THEN lwpc' = "update_acquire" /\ li' = Null
       ELSE lwpc' = "send" /\ UNCHANGED li
    /\ io' = NoIO
    /\ UNCHANGED << lockOwner, lcpc, lreq, lkind, lreg, linfo, lstop, snap >>
    /\ UNCHANGED notLockVars

\* _send up to CANManager.send; an encode or send error takes the worker
\* to the wait
RunSend(ok) ==
    /\ lwpc = "send"
    /\ lwpc' = IF ok THEN "notify" ELSE "wait"
    /\ io' = IF ok THEN [by |-> "worker", kind |-> "send"] ELSE NoIO
    /\ UNCHANGED << lockOwner, lcpc, lreq, lkind, lreg, linfo, lstop, li, snap >>
    /\ UNCHANGED notLockVars

\* the notifier call of _send
RunNotify ==
    /\ lwpc = "notify"
    /\ lwpc' = "update_acquire"
    /\ io' = [by |-> "worker", kind |-> "publish"]
    /\ UNCHANGED << lockOwner, lcpc, lreq, lkind, lreg, linfo, lstop, li, snap >>
    /\ UNCHANGED notLockVars

\* _update_progress / _update_current_code: the lock is taken; `if not
\* task: return` leaves the block at once
UpdateAcquire ==
    /\ lwpc = "update_acquire"
    /\ Enter("worker")
    /\ lwpc' = IF ~lreg THEN "update_return"
               ELSE IF lkind = "fault" THEN "update_sent" ELSE "update_index"
    /\ io' = NoIO
    /\ UNCHANGED << lcpc, lreq, lkind, lreg, linfo, lstop, li, snap >>
    /\ UNCHANGED notLockVars

\* where the worker goes when the status update is over
AfterUpdate ==
    IF lkind = "fault" THEN "progress" ELSE IF li = Null THEN "done" ELSE "wait"

UpdateReturn ==
    /\ lwpc = "update_return"
    /\ lockOwner' = "free"
    /\ lwpc' = AfterUpdate
    /\ io' = NoIO
    /\ UNCHANGED << lcpc, lreq, lkind, lreg, linfo, lstop, li, snap >>
    /\ UNCHANGED notLockVars

\* task["info"]["sentCount"] = sent_count, the block's only statement
UpdateSent ==
    /\ lwpc = "update_sent"
    /\ linfo' = [linfo EXCEPT !.sentCount = li + 1]
    /\ lockOwner' = "free"
    /\ lwpc' = AfterUpdate
    /\ io' = NoIO
    /\ UNCHANGED << lcpc, lreq, lkind, lreg, lstop, li, snap >>
    /\ UNCHANGED notLockVars

\* info["currentIndex"] = index
UpdateIndex ==
    /\ lwpc = "update_index"
    /\ linfo' = [linfo EXCEPT !.currentIndex = li]
    /\ lwpc' = "update_code"
    /\ io' = NoIO
    /\ UNCHANGED << lockOwner, lcpc, lreq, lkind, lreg, lstop, li, snap >>
    /\ UNCHANGED notLockVars

\* info["currentCode"] = ..., the statements after it, and the block's end
UpdateCode ==
    /\ lwpc = "update_code"
    /\ linfo' = [linfo EXCEPT !.currentCode =
                    IF li = Null THEN << >>
                    ELSE FormatCode(LockCodes[li + 1], ByteLength(LockKey) * 2)]
    /\ lockOwner' = "free"
    /\ lwpc' = AfterUpdate
    /\ io' = NoIO
    /\ UNCHANGED << lcpc, lreq, lkind, lreg, lstop, li, snap >>
    /\ UNCHANGED notLockVars

\* _notify_progress
NotifyProgress ==
    /\ lwpc = "progress"
    /\ lwpc' = "wait"
    /\ io' = [by |-> "worker", kind |-> "publish"]
    /\ UNCHANGED << lockOwner, lcpc, lreq, lkind, lreg, linfo, lstop, li, snap >>
    /\ UNCHANGED notLockVars

\* stop_event.wait(interval_seconds), and the loop variable's next value
RunWait ==
    /\ lwpc = "wait"
    /\ IF lkind = "fault"
         THEN /\ lwpc' = IF lstop THEN "pop_acquire" ELSE "head"
              /\ li' = IF lstop THEN li ELSE li + 1
       ELSE IF lstop
         THEN lwpc' = "update_acquire" /\ li' = Null
       ELSE lwpc' = "head" /\ li' = (li + 1) % Len(LockCodes)
    /\ io' = NoIO
    /\ UNCHANGED << lockOwner, lcpc, lreq, lkind, lreg, linfo, lstop, snap >>
    /\ UNCHANGED notLockVars

\* the `finally` of _run_fault_test takes the lock
PopAcquire ==
    /\ lwpc = "pop_acquire"
    /\ Enter("worker")
    /\ lwpc' = "pop"
    /\ io' = NoIO
    /\ UNCHANGED << lcpc, lreq, lkind, lreg, linfo, lstop, li, snap >>
    /\ UNCHANGED notLockVars

\* a `finally` whose lock block reaches over the notification
OwnerAfterPopKept == "worker"

\* the `with` block of the `finally` ends after the pop
OwnerAfterPop == "free"

FinallyPop ==
    /\ lwpc = "pop"
    /\ lreg' = FALSE
    /\ lockOwner' = OwnerAfterPop
    /\ lwpc' = "completed"
    /\ io' = NoIO
    /\ UNCHANGED << lcpc, lreq, lkind, linfo, lstop, li, snap >>
    /\ UNCHANGED notLockVars

\* _notify_completed, the thread's last statement
NotifyCompleted ==
    /\ lwpc = "completed"
    /\ lwpc' = "done"
    /\ io' = [by |-> "worker", kind |-> "publish"]
    /\ UNCHANGED << lockOwner, lcpc, lreq, lkind, lreg, linfo, lstop, li, snap >>
    /\ UNCHANGED notLockVars

\* start(): the first lock block is entered
StartAcquire(kind) ==
    /\ lcpc = "idle"
    /\ lwpc \in {"none", "done"}
    /\ Enter("caller")
    /\ lreq' = kind
    /\ lcpc' = "start_check"
    /\ io' = NoIO
    /\ UNCHANGED << lwpc, lkind, lreg, linfo, lstop, li, snap >>
    /\ UNCHANGED notLockVars

\* `if message_name in self._tasks: raise`, and the block's end
StartCheck ==
    /\ lcpc = "start_check"
    /\ lockOwner' = "free"
    /\ lcpc' = IF lreg THEN "idle" ELSE "register_acquire"
    /\ io' = NoIO
    /\ UNCHANGED << lwpc, lreq, lkind, lreg, linfo, lstop, li, snap >>
    /\ UNCHANGED notLockVars

RegisterAcquire ==
    /\ lcpc = "register_acquire"
    /\ Enter("caller")
    /\ lcpc' = "register"
    /\ io' = NoIO
    /\ UNCHANGED << lwpc, lreq, lkind, lreg, linfo, lstop, li, snap >>
    /\ UNCHANGED notLockVars

\* self._tasks[message_name] = {...}, and the block's end
StartRegister ==
    /\ lcpc = "register"
    /\ lreg' = TRUE
    /\ lkind' = lreq
    /\ linfo' = NoInfo
    /\ lstop' = FALSE
    /\ lockOwner' = "free"
    /\ lcpc' = "thread_start"
    /\ io' = NoIO
    /\ UNCHANGED << lwpc, lreq, li, snap >>
    /\ UNCHANGED notLockVars

\* thread.start()
StartThread ==
    /\ lcpc = "thread_start"
    /\ lwpc' = "head"
    /\ li' = 0
    /\ lcpc' = "start_return"
    /\ io' = NoIO
    /\ UNCHANGED << lockOwner, lreq, lkind, lreg, linfo, lstop, snap >>
    /\ UNCHANGED notLockVars

\* `return info.copy()` of start(): no lock is taken
StartReturn ==
    /\ lcpc = "start_return"
    /\ snap' = [by |-> "start", info |-> linfo]
    /\ lcpc' = "idle"
    /\ io' = NoIO
    /\ UNCHANGED << lockOwner, lwpc, lreq, lkind, lreg, linfo, lstop, li >>
    /\ UNCHANGED notLockVars

\* stop(): the first lock block is entered
StopAcquire ==
    /\ lcpc = "idle"
    /\ Enter("caller")
    /\ lcpc' = "stop_lookup"
    /\ io' = NoIO
    /\ UNCHANGED << lwpc, lreq, lkind, lreg, linfo, lstop, li, snap >>
    /\ UNCHANGED notLockVars

\* the lookup, `info = task["info"].copy()`, and the block's end
StopLookup ==
    /\ lcpc = "stop_lookup"
    /\ lockOwner' = "free"
    /\ IF lreg
         THEN /\ snap' = [by |-> "stop", info |-> linfo]
              /\ lcpc' = "stop_set"
       ELSE /\ lcpc' = "idle"
            /\ UNCHANGED snap
    /\ io' = NoIO
    /\ UNCHANGED << lwpc, lreq, lkind, lreg, linfo, lstop, li >>
    /\ UNCHANGED notLockVars

\* stop_event.set() and the join with its timeout
StopSetJoin ==
    /\ lcpc = "stop_set"
    /\ lstop' = TRUE
    /\ lcpc' = "stop_pop_acquire"
    /\ io' = NoIO
    /\ UNCHANGED << lockOwner, lwpc, lreq, lkind, lreg, linfo, li, snap >>
    /\ UNCHANGED notLockVars

StopPopAcquire ==
    /\ lcpc = "stop_pop_acquire"
    /\ Enter("caller")
    /\ lcpc' = "stop_pop"
    /\ io' = NoIO
    /\ UNCHANGED << lwpc, lreq, lkind, lreg, linfo, lstop, li, snap >>
    /\ UNCHANGED notLockVars

\* self._tasks.pop(message_name, None), and the block's end
StopPop ==
    /\ lcpc = "stop_pop"
    /\ lreg' = FALSE
    /\ lockOwner' = "free"
    /\ lcpc' = "idle"
    /\ io' = NoIO
    /\ UNCHANGED << lwpc, lreq, lkind, linfo, lstop, li, snap >>
    /\ UNCHANGED notLockVars

\* get_status(): the lock block is entered
StatusAcquire ==
    /\ lcpc = "idle"
    /\ lreg
    /\ Enter("caller")
    /\ lcpc' = "status_copy"
    /\ io' = NoIO
    /\ UNCHANGED << lwpc, lreq, lkind, lreg, linfo, lstop, li, snap >>
    /\ UNCHANGED notLockVars

\* task["info"].copy() of get_status, and the block's end
StatusCopy ==
    /\ lcpc = "status_copy"
    /\ snap' = [by |-> "status", info |-> linfo]
    /\ lockOwner' = "free"
    /\ lcpc' = "idle"
    /\ io' = NoIO
    /\ UNCHANGED << lwpc, lreq, lkind, lreg, linfo, lstop, li >>
    /\ UNCHANGED notLockVars

\* ------------------------------------------------------------ CANManager
\* configure, shutdown, get_status and start_periodic are called from the
\* event loop, one at a time; send is called by the workers and the receive
\* loop runs in its own thread, both without the lock.
notCanVars == << tasks, taskVars, callerVars, ghostVars, bphase, queue, flushVars, subVars,
                 recVars, prodVars, nextEv, now, listing, got, replayVars, lockVars,
                 raceVars, rangeVars, persistVars >>

rxVars == << rxStarted, rxStarts, stopSet, rxpc, rxBus, rxFrame, reopened, lateFrames >>

\* a _shutdown_locked that leaves the bus in place
AfterShutdownLockedKept == bus

\* CANManager._bus after _shutdown_locked: None
AfterShutdownLocked == 0

\* _shutdown_locked: stop_all_periodic, bus.shutdown() if there is a bus,
\* self._bus = None, self._config = None
ShutdownLocked ==
    /\ periodic' = [k \in Keys |-> NoCyclic]
    /\ cyclicLive' = {}
    /\ openBuses' = openBuses \ {bus}
    /\ bus' = AfterShutdownLocked
    /\ configured' = FALSE

\* configure up to can.Bus(): the lock is taken, _shutdown_locked
CanConfigureBegin ==
    /\ canpc = "idle"
    /\ nextBus <= MaxBuses
    /\ ShutdownLocked
    /\ canpc' = "open"
    /\ UNCHANGED << nextBus, cfgres, cstatus, sres, rxVars, nextCyclic, pres >>
    /\ UNCHANGED notCanVars

\* _ensure_rx_thread
EnsureRxThread ==
    IF rxStarted
      THEN UNCHANGED << rxStarted, rxStarts, rxpc >>
    ELSE /\ rxStarted' = TRUE
         /\ rxStarts' = rxStarts + 1
         /\ rxpc' = "head"

\* configure at `self._bus = can.Bus(...)`: the bus is opened and assigned,
\* or can.Bus raises and configure ends with the lock released
CanConfigureOpen(ok) ==
    /\ canpc = "open"
    /\ IF ok
         THEN /\ bus' = nextBus
              /\ openBuses' = openBuses \cup {nextBus}
              /\ nextBus' = nextBus + 1
              /\ canpc' = "store"
              /\ UNCHANGED cfgres
       ELSE /\ canpc' = "idle"
            /\ cfgres' = "error"
            /\ UNCHANGED << bus, openBuses, nextBus >>
    /\ UNCHANGED << configured, cstatus, sres, rxVars, periodicVars >>
    /\ UNCHANGED notCanVars

\* the rest of configure: self._config = config, _ensure_rx_thread
CanConfigureStore ==
    /\ canpc = "store"
    /\ canpc' = "idle"
    /\ configured' = TRUE
    /\ EnsureRxThread
    /\ reopened' = stopSet
    /\ cfgres' = "configured"
    /\ UNCHANGED << bus, openBuses, nextBus, cstatus, sres, stopSet, rxBus, rxFrame, lateFrames,
                    periodicVars >>
    /\ UNCHANGED notCanVars

\* shutdown(): _shutdown_locked and _stop_event.set() under the lock, then
\* the join of the receive thread, which gives up after a second
CanShutdown ==
    /\ canpc = "idle"
    /\ ShutdownLocked
    /\ stopSet' = TRUE
    /\ UNCHANGED << nextBus, canpc, cfgres, cstatus, sres, rxStarted, rxStarts, rxpc, rxBus,
                    rxFrame, reopened, lateFrames, nextCyclic, pres >>
    /\ UNCHANGED notCanVars

\* get_status, under the lock
CanGetStatus ==
    /\ canpc = "idle"
    /\ cstatus' = IF configured THEN "configured" ELSE "unconfigured"
    /\ UNCHANGED << configured, bus, openBuses, nextBus, canpc, cfgres, sres, rxVars, periodicVars >>
    /\ UNCHANGED notCanVars

\* send: _require_bus, bus.send
CanSend ==
    /\ sres' = IF bus = 0 THEN "NotConfigured" ELSE "sent"
    /\ UNCHANGED << configured, bus, openBuses, nextBus, canpc, cfgres, cstatus, rxVars,
                    periodicVars >>
    /\ UNCHANGED notCanVars

\* `while not self._stop_event.is_set()`
RxGoesOn == ~stopSet

\* the receive loop's head
RxHead ==
    /\ rxpc = "head"
    /\ rxpc' = IF RxGoesOn THEN "require" ELSE "exited"
    /\ UNCHANGED << configured, bus, openBuses, nextBus, canpc, cfgres, cstatus, sres,
                    rxStarted, rxStarts, stopSet, rxBus, rxFrame, reopened, lateFrames,
                    periodicVars >>
    /\ UNCHANGED notCanVars

\* bus = self._require_bus(); without a bus the loop sleeps and goes on
RxRequire ==
    /\ rxpc = "require"
    /\ rxBus' = bus
    /\ rxpc' = IF bus = 0 THEN "head" ELSE "recv"
    /\ UNCHANGED << configured, bus, openBuses, nextBus, canpc, cfgres, cstatus, sres,
                    rxStarted, rxStarts, stopSet, rxFrame, reopened, lateFrames, periodicVars >>
    /\ UNCHANGED notCanVars

\* bus.recv(timeout=0.5): a message, None, or a CanError; a bus that was
\* shut down gives no message
RxRecv(frame) ==
    /\ rxpc = "recv"
    /\ frame => rxBus \in openBuses
    /\ rxFrame' = IF frame THEN rxBus ELSE 0
    /\ rxpc' = IF frame THEN "deliver" ELSE "head"
    /\ UNCHANGED << configured, bus, openBuses, nextBus, canpc, cfgres, cstatus, sres,
                    rxStarted, rxStarts, stopSet, rxBus, reopened, lateFrames, periodicVars >>
    /\ UNCHANGED notCanVars

\* the callbacks are called with the message
RxDeliver ==
    /\ rxpc = "deliver"
    /\ lateFrames' = IF stopSet THEN lateFrames + 1 ELSE lateFrames
    /\ rxFrame' = 0
    /\ rxpc' = "head"
    /\ UNCHANGED << configured, bus, openBuses, nextBus, canpc, cfgres, cstatus, sres,
                    rxStarted, rxStarts, stopSet, rxBus, reopened, periodicVars >>
    /\ UNCHANGED notCanVars

\* ------------------------------------------------------ out of range
\* the limits a DBC may declare for a signal, Null for none
Limits == (0 - MaxLimit)..MaxLimit \cup {Null}

\* the declared ranges: a minimum not above the maximum
Ranges ==
    { r \in [minimum : Limits, maximum : Limits, declared : {TRUE}] :
        r.minimum = Null \/ r.maximum = Null \/ r.minimum <= r.maximum }

\* the request's rangeMultiplier, above 1
Multipliers == {2, 3}

\* the value _inject_out_of_range gives the target signal
OutOfRangeValue(signal, multiplier) ==
    IF signal.maximum # Null THEN signal.maximum * multiplier
    ELSE IF signal.minimum # Null THEN signal.minimum * multiplier
    ELSE 999999

notRangeVars == << coreVars, raceVars, persistVars, canVars >>

\* _inject_out_of_range for a target the message has: the value, then the
\* encoding, and the all-0xFF payload when the codec raises
InjectOutOfRange(signal, multiplier, encodes) ==
    /\ osignal' = signal
    /\ omult' = multiplier
    /\ ovalue' = OutOfRangeValue(signal, multiplier)
    /\ oframe' = IF encodes THEN "encoded" ELSE "raw"
    /\ UNCHANGED notRangeVars

\* ------------------------------------------------- start against start
\* FaultInjectionManager.start called by two threads on one registry, each
\* lock block one step.  SignalChaserManager.start and _start_signal_scan
\* have the same two blocks.
notRaceVars == << coreVars, rangeVars, persistVars, canVars >>

RaceFinish(s, result) ==
    /\ rpc' = [rpc EXCEPT ![s] = "idle"]
    /\ rres' = [rres EXCEPT ![s] = result]

\* `message_name in self._tasks`
InRegistry(k) == rtasks[k] # "none"

\* the first lock block: `if message_name in self._tasks: raise`
RaceCheck(s, k) ==
    /\ rpc[s] = "idle"
    /\ rkey' = [rkey EXCEPT ![s] = k]
    /\ IF InRegistry(k)
         THEN RaceFinish(s, "AlreadyRunning")
       ELSE /\ rpc' = [rpc EXCEPT ![s] = "resolve"]
            /\ rres' = [rres EXCEPT ![s] = "none"]
    /\ UNCHANGED << rtasks, rthreads >>
    /\ UNCHANGED notRaceVars

\* between the blocks: the message is looked up, the transport's status
\* read, the event, the info dict and the thread object built
RaceResolve(s) ==
    /\ rpc[s] = "resolve"
    /\ IF ~MessageKnown(rkey[s]) THEN RaceFinish(s, "NotFound")
       ELSE IF ~configured THEN RaceFinish(s, "NotReady")
       ELSE rpc' = [rpc EXCEPT ![s] = "register"] /\ UNCHANGED rres
    /\ UNCHANGED << rkey, rtasks, rthreads >>
    /\ UNCHANGED notRaceVars

\* the second lock block: self._tasks[message_name] = {...}
RaceRegister(s) ==
    /\ rpc[s] = "register"
    /\ rtasks' = [rtasks EXCEPT ![rkey[s]] = s]
    /\ rpc' = [rpc EXCEPT ![s] = "thread_start"]
    /\ UNCHANGED << rkey, rres, rthreads >>
    /\ UNCHANGED notRaceVars

\* thread.start() and the return of the status
RaceThreadStart(s) ==
    /\ rpc[s] = "thread_start"
    /\ rthreads' = rthreads \cup {[by |-> s, key |-> rkey[s]]}
    /\ RaceFinish(s, "started")
    /\ UNCHANGED << rkey, rtasks >>
    /\ UNCHANGED notRaceVars

\* ------------------------------------------------------------ event bus
\* asyncio.Queue.full(): a queue of maxsize 0 is never full
QueueFull == QueueMaxSize > 0 /\ Len(queue) >= QueueMaxSize

\* a send_threadsafe that puts the payload at the head of the queue
SendThreadsafeFirst(e) ==
    IF bphase = "new" \/ QueueFull THEN queue ELSE << e >> \o queue

\* MessageBroadcaster.send_threadsafe: dropped when there is no queue yet,
\* dropped on QueueFull, else put_nowait
SendThreadsafe(e) ==
    IF bphase = "new" \/ QueueFull THEN queue ELSE Append(queue, e)

\* the event types a producer's handler publishes
ProducerTypes(p) == IF p = "worker" THEN {"tx", "fault"} ELSE {"rx"}

\* the handlers that call recording_manager.append_event after publishing:
\* _handle_tx_event, the "tx" branch of _handle_fault_event, _on_can_message
Recorded(ty) == ty \in {"tx", "rx"}

\* MessageBroadcaster.set_loop, called by on_startup
Startup ==
    /\ bphase = "new"
    /\ bphase' = "running"
    /\ flusher' = "loop"
    /\ UNCHANGED << queue, fpc, batch, todo, dead, subVars, recVars, prodVars, nextEv >>
    /\ UNCHANGED registryVars

\* a producer's handler up to and including broadcaster.send_threadsafe
Publish(p, ty) ==
    /\ bphase # "new"
    /\ ppc[p] = "idle"
    /\ nextEv <= MaxEvents
    /\ LET e == [n |-> nextEv, type |-> ty, timestamp |-> now]
       IN /\ queue' = SendThreadsafe(e)
          /\ IF Recorded(ty)
               THEN /\ ppc' = [ppc EXCEPT ![p] = "append"]
                    /\ pend' = [pend EXCEPT ![p] = e]
             ELSE UNCHANGED prodVars
          /\ openLog' = IF active # NoRec THEN openLog \cup {e} ELSE openLog
    /\ nextEv' = nextEv + 1
    /\ UNCHANGED << bphase, flushVars, subVars, active, disk, nextRec, lres, appendLog, dropped,
                    mtime >>
    /\ UNCHANGED registryVars

\* an append that puts the event in front
StoredFirst(events, e) == << e >> \o events

\* list.append of append_event
Stored(events, e) == Append(events, e)

\* an append_event without the test for an open recording
AfterAppendUnguarded(rec, e) == [rec EXCEPT !.events = Stored(@, e)]

\* RecordingManager._active after append_event(e): untouched when no
\* recording is open
AfterAppend(rec, e) ==
    IF rec = NoRec THEN rec ELSE [rec EXCEPT !.events = Stored(@, e)]

\* RecordingManager.append_event, the last statement of the producer's handler
AppendEvent(p) ==
    /\ ppc[p] = "append"
    /\ IF active = NoRec
         THEN /\ dropped' = dropped \cup {pend[p]}
              /\ UNCHANGED appendLog
       ELSE /\ appendLog' = Append(appendLog, pend[p])
            /\ UNCHANGED dropped
    /\ active' = AfterAppend(active, pend[p])
    /\ ppc' = [ppc EXCEPT ![p] = "idle"]
    /\ pend' = [pend EXCEPT ![p] = NoEvent]
    /\ UNCHANGED << bphase, queue, flushVars, subVars, disk, nextRec, lres, nextEv, openLog,
                    mtime >>
    /\ UNCHANGED registryVars

\* the message broadcast() sends for a batch: the event itself when it is
\* alone, else the batch envelope
Payload(b) == IF Len(b) = 1 THEN b[1] ELSE [type |-> "batch", messages |-> b]

\* _broadcast_loop after its sleep, with a non-empty queue: drain it and
\* enter broadcast()
LoopDrain ==
    /\ flusher = "loop" /\ fpc = "sleep"
    /\ queue # << >>
    /\ batch' = queue
    /\ queue' = << >>
    /\ todo' = connections
    /\ dead' = {}
    /\ fpc' = "sending"
    /\ UNCHANGED << bphase, flusher, subVars, recVars, prodVars, nextEv >>
    /\ UNCHANGED registryVars

\* one iteration of broadcast()'s loop: connection.send_json(payload), a
\* failure puts the connection on the dead list
SendOne(s, ok) ==
    /\ fpc = "sending"
    /\ s \in todo
    /\ todo' = todo \ {s}
    /\ IF ok
         THEN /\ delivered' = [delivered EXCEPT ![s] = Append(@, Payload(batch))]
              /\ UNCHANGED dead
       ELSE /\ dead' = dead \cup {s}
            /\ UNCHANGED delivered
    /\ UNCHANGED << bphase, queue, flusher, fpc, batch, connections, seen, recVars,
                    prodVars, nextEv >>
    /\ UNCHANGED registryVars

\* the connections broadcast() keeps: it discards every dead one
Kept(conns, failed) == conns \ failed

\* the end of broadcast(): the dead connections are discarded, the lock is
\* released; the loop goes back to sleep, shutdown() returns
BroadcastEnd ==
    /\ fpc = "sending"
    /\ todo = {}
    /\ connections' = Kept(connections, dead)
    /\ dead' = {}
    /\ batch' = << >>
    /\ fpc' = "sleep"
    /\ IF flusher = "shutdown"
         THEN flusher' = "ended" /\ bphase' = "shutdown"
       ELSE UNCHANGED << flusher, bphase >>
    /\ UNCHANGED << queue, todo, seen, delivered, recVars, prodVars, nextEv >>
    /\ UNCHANGED registryVars

\* MessageBroadcaster.shutdown: cancel the loop task and await it (a batch the
\* loop is sending is abandoned where the cancellation finds it), then drain
\* what is queued and broadcast it
Shutdown ==
    /\ flusher = "loop"
    /\ fpc = "sleep" \/ todo # {}
    /\ dead' = {}
    /\ IF queue = << >>
         THEN /\ flusher' = "ended"
              /\ bphase' = "shutdown"
              /\ fpc' = "sleep"
              /\ batch' = << >>
              /\ todo' = {}
              /\ UNCHANGED queue
       ELSE /\ flusher' = "shutdown"
            /\ fpc' = "sending"
            /\ batch' = queue
            /\ queue' = << >>
            /\ todo' = connections
            /\ UNCHANGED bphase
    /\ UNCHANGED << subVars, recVars, prodVars, nextEv >>
    /\ UNCHANGED registryVars

\* MessageBroadcaster.connect, from websocket_endpoint: waits for the lock
\* broadcast() holds
Connect(s) ==
    /\ bphase = "running"
    /\ fpc = "sleep"
    /\ s \notin seen
    /\ connections' = connections \cup {s}
    /\ seen' = seen \cup {s}
    /\ UNCHANGED << bphase, queue, flushVars, delivered, recVars, prodVars, nextEv >>
    /\ UNCHANGED registryVars

\* MessageBroadcaster.disconnect, after WebSocketDisconnect
Disconnect(s) ==
    /\ fpc = "sleep"
    /\ s \in connections
    /\ connections' = connections \ {s}
    /\ UNCHANGED << bphase, queue, flushVars, seen, delivered, recVars, prodVars, nextEv >>
    /\ UNCHANGED registryVars

\* ------------------------------------------------------- recording store
\* a store that never sees its open recording
RecordingOpenNever == FALSE

\* a store that takes the empty slot for a recording
RecordingOpenAlways == TRUE

\* `self._active is not None`
RecordingOpen == active # NoRec

\* the label of a new recording: the stripped name, or the formatted start time
LabelOf(name) == IF name = "" THEN "start-time" ELSE name

\* start_log: RecordingManager.start under its lock, then the "recording"
\* event; the RuntimeError becomes the HTTP error
StartLog(name) ==
    /\ bphase # "new"
    /\ IF RecordingOpen
         THEN /\ lres' = "AlreadyActive"
              /\ UNCHANGED << active, nextRec, appendLog, openLog, queue, nextEv >>
       ELSE /\ nextRec <= MaxRecordings
            /\ active' = [id |-> nextRec, name |-> LabelOf(name), events |-> << >>,
                           started_at |-> now]
            /\ nextRec' = nextRec + 1
            /\ appendLog' = << >>
            /\ openLog' = {[n |-> nextEv, type |-> "recording"]}
            /\ queue' = SendThreadsafe([n |-> nextEv, type |-> "recording"])
            /\ nextEv' = nextEv + 1
            /\ lres' = "started"
    /\ UNCHANGED << bphase, flushVars, subVars, disk, dropped, prodVars, mtime >>
    /\ UNCHANGED registryVars

\* event_count of the document stop() writes
EventCount(events) == Len(events)

\* the document RecordingManager.stop dumps to <id>.json
Document(rec) ==
    [id |-> rec.id, name |-> rec.name, started_at |-> rec.started_at, events |-> rec.events,
     ended_at |-> now, event_count |-> EventCount(rec.events)]

\* a directory that holds the last document only
PersistedAlone(files, doc) == {doc}

\* the directory after stop() has written <id>.json, a new file: the
\* identifier is a fresh uuid4
Persisted(files, doc) == files \cup {doc}

\* stop_log: RecordingManager.stop under its lock, then the "recording" event
StopLog ==
    /\ bphase # "new"
    /\ IF ~RecordingOpen
         THEN /\ lres' = "NoneActive"
              /\ UNCHANGED << active, disk, queue, nextEv, mtime, broken >>
       ELSE /\ disk' = Persisted(disk, Document(active))
            /\ mtime' = [mtime EXCEPT ![active.id] = now]
            /\ broken' = broken \ {active.id}
            /\ active' = NoRec
            /\ queue' = SendThreadsafe([n |-> nextEv, type |-> "recording"])
            /\ nextEv' = nextEv + 1
            /\ lres' = "stopped"
    /\ UNCHANGED << bphase, flushVars, subVars, nextRec, appendLog, dropped, openLog, prodVars >>
    /\ UNCHANGED << notPersistVars, persistFailed >>

\* a stop() that clears the slot whether or not the file was written
AfterPersistFailureCleared(rec) == NoRec

\* RecordingManager._active after an exception of path.open or json.dump:
\* `self._active = None` is not reached
AfterPersistFailure(rec) == rec

\* stop_log when writing <id>.json raises (the file cannot be created, or
\* json.dump fails after open("w") has created it): the exception is no
\* RuntimeError and leaves stop() and the endpoint before the "recording" event
StopLogFails(truncated) ==
    /\ bphase # "new"
    /\ RecordingOpen
    /\ active' = AfterPersistFailure(active)
    /\ broken' = IF truncated THEN broken \cup {active.id} ELSE broken
    /\ mtime' = IF truncated THEN [mtime EXCEPT ![active.id] = now] ELSE mtime
    /\ persistFailed' = persistFailed \cup {active.id}
    /\ lres' = "PersistError"
    /\ UNCHANGED << bphase, queue, flushVars, subVars, disk, nextRec, appendLog, dropped, openLog,
                    prodVars, nextEv >>
    /\ UNCHANGED notPersistVars

\* time passes: the next time.time() reads more
Tick ==
    /\ now < MaxTime
    /\ now' = now + 1
    /\ UNCHANGED << configured, tasks, taskVars, callerVars, ghostVars >>
    /\ UNCHANGED << bphase, queue, flushVars, subVars, recVars, prodVars, nextEv >>
    /\ UNCHANGED << listing, got, replayVars, periodicVars, lockVars, moreVars >>

\* a summary whose duration runs to the last event
SummaryToLastEvent(doc) ==
    [id |-> doc.id, name |-> doc.name, started_at |-> doc.started_at, ended_at |-> doc.ended_at,
     event_count |-> doc.event_count,
     duration |-> IF doc.events = << >> THEN 0
                  ELSE doc.events[Len(doc.events)].timestamp - doc.started_at]

\* one entry of list_recordings: the document's event_count is kept,
\* duration = max(0.0, ended - started) is added, "events" is popped
Summary(doc) ==
    [id |-> doc.id, name |-> doc.name, started_at |-> doc.started_at, ended_at |-> doc.ended_at,
     event_count |-> doc.event_count,
     duration |-> IF doc.ended_at - doc.started_at >= 0 THEN doc.ended_at - doc.started_at ELSE 0]

\* sorted(glob("*.json"), key=st_mtime, reverse=True): the files by
\* descending modification time; files of equal time stay in the order glob
\* yields them, which is the directory's
SortedByMtime(files) ==
    { order \in [1..Cardinality(files) -> files] :
        /\ \A i, j \in DOMAIN order : i # j => order[i] # order[j]
        /\ \A i, j \in DOMAIN order : i < j => mtime[order[i].id] >= mtime[order[j].id] }

\* RecordingManager.list_recordings
ListLogs ==
    /\ \E order \in SortedByMtime(disk) :
          listing' = [i \in DOMAIN order |-> Summary(order[i])]
    /\ UNCHANGED << configured, tasks, taskVars, callerVars, ghostVars >>
    /\ UNCHANGED << bphase, queue, flushVars, subVars, recVars, prodVars, nextEv >>
    /\ UNCHANGED << now, got, replayVars, periodicVars, lockVars, moreVars >>

\* what get_recording returns: json.load of <record_id>.json, None when
\* there is no such file
Loaded(record_id) ==
    IF \E d \in disk : d.id = record_id
      THEN CHOOSE d \in disk : d.id = record_id
    ELSE NotFound

\* RecordingManager.get_recording
GetLog(record_id) ==
    /\ got' = Loaded(record_id)
    /\ UNCHANGED << configured, tasks, taskVars, callerVars, ghostVars >>
    /\ UNCHANGED << bphase, queue, flushVars, subVars, recVars, prodVars, nextEv >>
    /\ UNCHANGED << now, listing, replayVars, periodicVars, lockVars, moreVars >>

\* ----------------------------------------------------------------- replay
\* The recordings a decode request may find on disk.  Event i of a document
\* is written i; what the uploaded DBC makes of the events is the document's
\* `decode`: "all" (every event decodes to a number), "odd" (every second
\* event, the others decode to nothing), "text" (every event decodes to a
\* named choice, not a number), "none" (no event decodes).
LogSizes ==
    { n \in { k * max_events + d : k \in 0..((MaxFactor * max_points) \div max_events),
                                   d \in {-1, 0, 1} } : n >= 0 }
    \cup { k * max_points + d : k \in 1..MaxFactor, d \in {-1, 0, 1} }

DecodePatterns == {"all", "odd", "text", "none"}

LogEvents(log) == [i \in 1..log.count |-> i]

\* temp_manager.decode / message_obj.decode of one event: "num", "text", or
\* "fail" when decoded_payload stays None
Decoded(log, ev) ==
    IF log.decode = "all" THEN "num"
    ELSE IF log.decode = "odd" THEN (IF ev % 2 = 1 THEN "num" ELSE "fail")
    ELSE IF log.decode = "text" THEN "text"
    ELSE "fail"

\* math.ceil(a / b), b positive
CeilDiv(a, b) == (a + b - 1) \div b

Max2(a, b) == IF a >= b THEN a ELSE b
Min2(a, b) == IF a <= b THEN a ELSE b

\* points[::step]: the elements at the indices 0, step, 2 * step, ...
Slice(points, step) ==
    [k \in 1..CeilDiv(Len(points), step) |-> points[(k - 1) * step + 1]]

\* a step rounded down
StepFloor(original_count) == Max2(1, original_count \div max_points)

\* step = max(1, math.ceil(original_count / max_points))
Step(original_count) == Max2(1, CeilDiv(original_count, max_points))

\* the final loop of decode_log over the series: decimation of one entry
Decimate(points) ==
    LET original_count == Len(points)
    IN IF original_count > max_points
         THEN [points |-> Slice(points, Step(original_count)), downsampled |-> TRUE,
               original_points |-> original_count]
       ELSE [points |-> points, downsampled |-> FALSE, original_points |-> original_count]

\* entry["points"] after the loop over the events: one point for every event
\* that decodes to a number
SeriesPoints(log) ==
    LET IsNum(ev) == Decoded(log, ev) = "num"
    IN SelectSeq(LogEvents(log), IsNum)

\* series_map after the loop: the entry exists once an event has decoded
SeriesOf(log) ==
    IF log.count > 0 /\ log.decode \in {"all", "odd", "text"}
      THEN << Decimate(SeriesPoints(log)) >>
    ELSE << >>

\* a detailed list built from the points of the series
ShownFromPoints(log) ==
    SubSeq(SeriesPoints(log), 1, Min2(Len(SeriesPoints(log)), max_events))

\* decoded_events after the loop: an event is appended while the list is
\* shorter than max_events
Shown(log) == SubSeq(LogEvents(log), 1, Min2(log.count, max_events))

\* decode_log: one request for a recording of n events
DecodeLog(n, pat) ==
    LET log == [count |-> n, decode |-> pat]
    IN /\ rlog' = log
       /\ replay' = [events |-> Shown(log),
                     events_shown |-> Len(Shown(log)),
                     events_total |-> log.count,
                     series |-> SeriesOf(log)]
       /\ UNCHANGED << configured, tasks, taskVars, callerVars, ghostVars >>
       /\ UNCHANGED << bphase, queue, flushVars, subVars, recVars, prodVars, nextEv >>
       /\ UNCHANGED << now, listing, got, periodicVars, lockVars, moreVars >>

\* ------------------------------------------------------------ specification
CallerStep(c) ==
    \/ \E call \in StartInputs : StartCall(c, call)
    \/ StartInsert(c)
    \/ \E call \in StopInputs : StopCall(c, call)
    \/ StopJoinPop(c)

WorkerStep(t) ==
    \/ WorkerCheck(t)
    \/ \E ok \in BOOLEAN : WorkerTick(t, ok)
    \/ WorkerWait(t)
    \/ SweepFinal(t)
    \/ FaultCleanup(t)
    \/ FaultNotifyCompleted(t)

Next ==
    \/ Configure
    \/ \E c \in Callers : CallerStep(c)
    \/ \E t \in TaskIds : WorkerStep(t)

Spec == Init /\ [][Next]_vars

\* the event bus from its producers to its subscribers; no recording is
\* started, so every append_event finds the slot empty
BusNext ==
    \/ Startup
    \/ \E p \in Producers : \E ty \in ProducerTypes(p) : Publish(p, ty)
    \/ \E p \in Producers : AppendEvent(p)
    \/ LoopDrain
    \/ \E s \in Sockets, ok \in BOOLEAN : SendOne(s, ok)
    \/ BroadcastEnd
    \/ Shutdown
    \/ \E s \in Sockets : Connect(s)
    \/ \E s \in Sockets : Disconnect(s)

BusSpec == Init /\ [][BusNext]_vars

\* the recording store and the producers that feed it; what is enqueued
\* stays in the queue, whose delivery BusSpec follows
RecNext ==
    \/ Startup
    \/ \E p \in Producers : \E ty \in ProducerTypes(p) : Publish(p, ty)
    \/ \E p \in Producers : AppendEvent(p)
    \/ \E name \in Names : StartLog(name)
    \/ StopLog
    \/ \E truncated \in BOOLEAN : StopLogFails(truncated)

RecSpec == Init /\ [][RecNext]_vars

\* the bus alone, fed with "fault" events by a worker, which no recording
\* takes; the flush cycle is scheduled fairly and every send gets its turn
DeliveryNext ==
    \/ Startup
    \/ Publish("worker", "fault")
    \/ LoopDrain
    \/ \E s \in Sockets, ok \in BOOLEAN : SendOne(s, ok)
    \/ BroadcastEnd
    \/ Shutdown
    \/ \E s \in Sockets : Connect(s)
    \/ \E s \in Sockets : Disconnect(s)

DeliverySpec ==
    /\ Init /\ [][DeliveryNext]_vars
    /\ WF_vars(LoopDrain)
    /\ WF_vars(BroadcastEnd)
    /\ \A s \in Sockets : WF_vars(\E ok \in BOOLEAN : SendOne(s, ok))

\* one registry, statement by statement
LockWorkerStep ==
    \/ RunHead
    \/ \E ok \in BOOLEAN : RunSend(ok)
    \/ RunNotify
    \/ UpdateAcquire
    \/ UpdateReturn
    \/ UpdateSent
    \/ UpdateIndex
    \/ UpdateCode
    \/ NotifyProgress
    \/ RunWait
    \/ PopAcquire
    \/ FinallyPop
    \/ NotifyCompleted

LockCallerStep ==
    \/ \E kind \in LockKinds : StartAcquire(kind)
    \/ StartCheck
    \/ RegisterAcquire
    \/ StartRegister
    \/ StartThread
    \/ StartReturn
    \/ StopAcquire
    \/ StopLookup
    \/ StopSetJoin
    \/ StopPopAcquire
    \/ StopPop
    \/ StatusAcquire
    \/ StatusCopy

LockNext == LockWorkerStep \/ LockCallerStep

LockSpec == Init /\ [][LockNext]_vars

\* the transport and its receive thread
CanNext ==
    \/ CanConfigureBegin
    \/ \E ok \in BOOLEAN : CanConfigureOpen(ok)
    \/ CanConfigureStore
    \/ CanShutdown
    \/ CanGetStatus
    \/ CanSend
    \/ canpc = "idle" /\ SendPeriodic("Speed", 1, TRUE)
    \/ RxHead
    \/ RxRequire
    \/ \E frame \in BOOLEAN : RxRecv(frame)
    \/ RxDeliver

CanSpec == Init /\ [][CanNext]_vars

\* the out-of-range injection, over the ranges a DBC can declare
RangeNext ==
    \E signal \in Ranges, multiplier \in Multipliers, encodes \in BOOLEAN :
        InjectOutOfRange(signal, multiplier, encodes)

RangeSpec == Init /\ [][RangeNext]_vars

\* two request threads in start() of one registry
RaceNext ==
    \/ Configure
    \/ \E s \in Starters :
          \/ \E k \in Keys : RaceCheck(s, k)
          \/ RaceResolve(s)
          \/ RaceRegister(s)
          \/ RaceThreadStart(s)

RaceSpec == Init /\ [][RaceNext]_vars

\* the repeat tasks of the transport
PeriodicNext ==
    \/ Configure
    \/ \E key \in Keys, period \in Periods, encodes \in BOOLEAN : SendPeriodic(key, period, encodes)
    \/ \E key \in Keys : StopMessage(key)

PeriodicSpec == Init /\ [][PeriodicNext]_vars

\* the recording store with its clock and its queries, fed by the receive
\* thread
StoreNext ==
    \/ Startup
    \/ Publish("rx", "rx")
    \/ AppendEvent("rx")
    \/ \E name \in Names : StartLog(name)
    \/ StopLog
    \/ Tick
    \/ ListLogs
    \/ \E record_id \in 1..MaxRecordings : GetLog(record_id)

StoreSpec == Init /\ [][StoreNext]_vars

\* the replay engine: decode requests for recordings of every size around
\* the two caps
ReplayNext == \E n \in LogSizes, pat \in DecodePatterns : DecodeLog(n, pat)

ReplaySpec == Init /\ [][ReplayNext]_vars

\* The caller's thread is scheduled, and the join's timer fires: a stop call
\* that has reached its join goes on.  Nothing makes a worker's blocking
\* transport send return, so workers get no fairness.
FairSpec == Spec /\ \A c \in Callers : WF_vars(StopJoinPop(c))

TypeOK ==
    /\ configured \in BOOLEAN
    /\ \A t \in TaskIds : wpc[t] \in {"none", "check", "tick", "wait",
                                      "final", "cleanup", "notify", "done"}
    /\ \A c \in Callers : cpc[c] \in {"idle", "start_insert", "stop_join"}

\* ================================================================== claims
\* a task that is registered-by-a-successful-start, not stopped, not completed
Live(t) ==
    /\ wpc[t] \in {"check", "tick", "wait"}
    /\ ~stopEv[t]
    /\ ~(tdef[t].kind = "fault" /\ wpc[t] = "wait" /\ wi[t] + 1 >= tdef[t].count)

Registered(t) == \E m \in Mgrs, k \in Keys : tasks[m][k] = t

\* C1: for every key at most one task, of whatever kind, is registered at a
\* time (here: over the fault registry and the sweep registry).
C1_OneTaskPerKey ==
    \A k \in Keys : Cardinality({m \in Mgrs : tasks[m][k] # 0}) <= 1

\* C2: once start(k) has succeeded and k was neither stopped nor completed
\* since, a further start(k) with valid parameters fails with AlreadyRunning
\* and leaves the registry as it is.
C2_SecondStartFails ==
    [][\A c \in Callers, call \in StartInputs :
          ( /\ StartCall(c, call)
            /\ ~StartRejects(call)
            /\ \E t \in TaskIds : /\ Live(t)
                                  /\ MgrOf(tdef[t].kind) = call.mgr
                                  /\ tdef[t].key = call.key )
          => (cres'[c] = "AlreadyRunning" /\ tasks' = tasks)]_vars

\* C3: stop(k) for a key without a registered task fails with NotRunning,
\* sets no stop signal and leaves the registry unchanged.
C3_StopAbsentFails ==
    [][\A c \in Callers, call \in StopInputs :
          (StopCall(c, call) /\ tasks[call.mgr][call.key] = 0)
          => ( /\ cres'[c] = "NotRunning"
               /\ cpc'[c] = "idle"
               /\ stopEv' = stopEv
               /\ tasks' = tasks )]_vars

\* a stop was refused with NotRunning while another task was registered and running
C3_Witness ==
    \E c \in Callers : cres[c] = "NotRunning" /\ \E t \in TaskIds : Registered(t) /\ Live(t)

\* C4: when stop(k) returns successfully, k is absent from the registry, also
\* when the worker had not exited by the end of the join.
C4_StopRemovesEntry ==
    [][\A c \in Callers :
          (cpc[c] = "stop_join" /\ cres'[c] = "stopped")
          => tasks'[cop[c].mgr][cop[c].key] = 0]_vars

\* stop has returned and left a worker behind that is still in its loop
C4_Witness ==
    \E c \in Callers, t \in TaskIds :
        /\ cres[c] = "stopped"
        /\ stopEv[t] /\ wpc[t] \in {"check", "tick", "wait"} /\ ~Registered(t)
        /\ tasks[MgrOf(tdef[t].kind)][tdef[t].key] = 0

\* C5: after its stop signal is set a worker performs at most one further
\* transport send and never begins a new tick.
C5_AtMostOneSendAfterStop ==
    [][\A t \in TaskIds :
          /\ postStopSends'[t] <= 1
          /\ (wpc[t] # "tick" /\ wpc'[t] = "tick") => ~stopEv[t]]_vars

\* a worker sent the frame of its running tick after its stop signal was set
C5_Witness ==
    \E t \in TaskIds : postStopSends[t] = 1 /\ stopEv[t] /\ wpc[t] = "wait"

\* C6: stop(k) on a registered key always returns, whatever its worker does.
C6_StopReturns ==
    \A c \in Callers : (cpc[c] = "stop_join") ~> (cpc[c] = "idle" /\ cres[c] = "stopped")

\* stop has returned while the worker it stopped is still inside a tick
C6_Witness ==
    \E c \in Callers, t \in TaskIds :
        cres[c] = "stopped" /\ cpc[c] = "idle" /\ stopEv[t] /\ wpc[t] = "tick"

\* floor and ceiling of an item as the specification words them
Floor(signal) ==
    IF signal.minimum # Null THEN signal.minimum
    ELSE IF signal.initial # Null THEN signal.initial
    ELSE IF signal.choices # {} THEN SetMin(signal.choices)
    ELSE 0

Ceiling(signal) ==
    IF signal.maximum # Null THEN signal.maximum
    ELSE IF signal.choices # {} THEN SetMax(signal.choices)
    ELSE IF signal.initial # Null THEN signal.initial
    ELSE 2 ^ signal.length - 1

\* C7: in every frame a signal sweep builds, the selected item carries its
\* ceiling and every other item of the message its floor; one item is selected.
C7_OneAtCeiling ==
    \A t \in TaskIds :
        (tdef[t].kind = "signals" /\ payload[t] # << >>) =>
            /\ prevSel[t] \in 0..(NumItems(t) - 1)
            /\ DOMAIN payload[t] = 1..NumItems(t)
            /\ \A j \in 1..NumItems(t) :
                  payload[t][j] = IF j = prevSel[t] + 1 THEN Ceiling(tdef[t].items[j])
                                  ELSE Floor(tdef[t].items[j])

\* the frame with the second signal selected: its ceiling is its highest
\* choice, the third signal's floor is 0
C7_Witness ==
    \E t \in TaskIds :
        tdef[t].kind = "signals" /\ prevSel[t] = 1 /\ payload[t] = << 1, 3, 0 >>

\* C8: a sweep selects the first item in its first tick and in every later
\* tick the item after the one of the tick before, circularly; the status
\* a tick writes names the item it selected.
C8_SweepAdvancesByOne ==
    [][\A t \in TaskIds :
          (tdef[t].kind \in {"signals", "codes"}) =>
             /\ (wpc[t] # "tick" /\ wpc'[t] = "tick") =>
                   wi'[t] = IF prevSel[t] = Null THEN 0 ELSE (prevSel[t] + 1) % NumItems(t)
             /\ (wpc[t] = "tick" /\ wpc'[t] = "wait" /\ info'[t] # info[t]) =>
                   IF tdef[t].kind = "signals"
                     THEN info'[t].currentSignal = tdef[t].items[wi[t] + 1].name
                     ELSE /\ info'[t].currentIndex = wi[t]
                          /\ info'[t].currentCode[3] = tdef[t].items[wi[t] + 1]]_vars

\* a sweep that has wrapped around: last item in the tick before, first item now
C8_Witness ==
    \E t \in TaskIds :
        /\ tdef[t].kind \in {"signals", "codes"}
        /\ wpc[t] = "tick" /\ wi[t] = 0 /\ prevSel[t] = NumItems(t) - 1
        /\ NumItems(t) > 1

sharedVars == << configured, tasks, tdef, info, stopEv, wpc, wi, ghostVars >>

\* C10: a start request that fails leaves the registry as it is, launches no
\* worker and sends no frame; no step of start() before the registration does.
C10_FailedStartNoEffect ==
    [][\A c \in Callers :
          ( \/ \E call \in StartInputs : StartCall(c, call)
            \/ cpc[c] = "start_insert" /\ cpc'[c] = "idle" /\ cres'[c] # "started" )
          => UNCHANGED sharedVars]_vars

\* a start failed on the unconfigured transport, another on an unknown message
\* while a task was running
C10_Witness ==
    \E c \in Callers :
        \/ cres[c] = "NotReady" /\ ~configured
        \/ cres[c] = "NotFound" /\ \E t \in TaskIds : Registered(t) /\ Live(t)

\* ---------------------------------------------------------- recording store
\* C11: start() while a recording is open fails with AlreadyActive and leaves
\* the open recording and the durable ones as they are, in whatever order
\* start requests arrive; the store has the one slot.
C11_SingleOpenRecording ==
    [][\A name \in Names :
          (StartLog(name) /\ active # NoRec)
          => (lres' = "AlreadyActive" /\ active' = active /\ disk' = disk)]_vars

\* a start was refused while a recording with an event in it was open
C11_Witness == lres = "AlreadyActive" /\ active # NoRec /\ active.events # << >>

\* C12: stop() with no recording open fails with NoneActive, persists nothing
\* and leaves the durable recordings unchanged.
C12_StopNoneActive ==
    [][(StopLog /\ active = NoRec)
          => (lres' = "NoneActive" /\ disk' = disk /\ active' = NoRec /\ queue' = queue)]_vars

\* a stop was refused while a durable recording existed
C12_Witness == lres = "NoneActive" /\ active = NoRec /\ disk # {}

\* C13: append_event with no recording open returns, changes neither the
\* slot nor the durable recordings, and the event never shows up in a
\* recording started later.
C13_AppendWithoutRecording ==
    [][/\ \A p \in Producers :
            (AppendEvent(p) /\ active = NoRec)
            => (active' = NoRec /\ disk' = disk /\ ppc'[p] = "idle")
       /\ \A e \in dropped' :
            /\ \A i \in DOMAIN active'.events : active'.events[i] # e
            /\ \A d \in disk' : \A i \in DOMAIN d.events : d.events[i] # e]_vars

\* an event was dropped, and a recording started later holds a later event
C13_Witness ==
    /\ dropped # {}
    /\ active # NoRec /\ active.events # << >>
    /\ \A e \in dropped : e.n < active.events[1].n

\* C14: the document stop() persists holds exactly the events appended since
\* the start, in append order, and eventCount is their number.
C14_PersistedEvents ==
    [][(StopLog /\ active # NoRec) =>
          \E d \in disk' \ disk :
              /\ d.id = active.id
              /\ d.event_count = Len(appendLog)
              /\ d.events = appendLog]_vars

\* a recording with two events, appended in that order, is on disk
C14_Witness ==
    \E d \in disk : d.event_count = 2 /\ Len(d.events) = 2 /\ d.events[1].n < d.events[2].n

\* C15: with several producers publishing while a recording is open, the
\* events of the recording, open or persisted, are in the order in which
\* they were enqueued into the bus.
C15_RecordedInArrivalOrder ==
    \A i, j \in DOMAIN active.events :
        (i < j /\ active.events[i] \in openLog /\ active.events[j] \in openLog)
        => active.events[i].n < active.events[j].n

\* C16: every event published while a recording was open, of whatever type,
\* is in that recording when it is persisted.
C16_EveryEventRecorded ==
    [][(StopLog /\ active # NoRec) =>
          \A e \in openLog : \E i \in DOMAIN active.events : active.events[i] = e]_vars

\* ------------------------------------------------------------- event bus
\* C17: the number of queued events stays within a fixed capacity, smaller
\* than the number of events the producers publish; a publish that finds the
\* queue at that capacity is dropped.
C17_QueueBounded ==
    \E capacity \in 1..(MaxEvents - 1) : Len(queue) <= capacity

\* a flush is over: broadcast() has returned, or the loop has been cancelled
\* out of it
FlushEnds == fpc = "sending" /\ (fpc' = "sleep" \/ flusher' # flusher)

\* the one message a flush sends for the batch it drained
OneMessage ==
    IF Len(batch) = 1 THEN batch[1] ELSE [type |-> "batch", messages |-> batch]

\* C18: a flush drains the whole queue and delivers it to every live
\* subscriber as one message, the event itself when it is alone, else one
\* batch envelope in queue order; an empty queue delivers nothing.
C18_FlushDeliversAll ==
    [][/\ (fpc = "sleep" /\ fpc' = "sending") => (batch' = queue /\ queue' = << >>)
       /\ \A s \in Sockets :
            delivered'[s] # delivered[s] =>
               (batch # << >> /\ delivered'[s] = Append(delivered[s], OneMessage))
       /\ FlushEnds =>
            \A s \in connections' :
               /\ delivered[s] # << >>
               /\ delivered[s][Len(delivered[s])] = OneMessage]_vars

\* C19: a subscriber whose delivery fails is out of the subscriber set when
\* that flush is over and receives nothing afterwards, and the other
\* subscribers have received that flush's message.
C19_FailedSubscriberRemoved ==
    [][/\ FlushEnds => (dead \cap connections' = {})
       /\ \A s \in seen \ connections : delivered'[s] = delivered[s]
       /\ (FlushEnds /\ dead # {}) =>
            \A s \in connections \ dead :
               /\ delivered[s] # << >>
               /\ delivered[s][Len(delivered[s])] = OneMessage]_vars

\* C20: shutdown delivers what is queued or being delivered in one final
\* flush, and once it has returned nothing is enqueued any more: the queue
\* is empty from then on.
C20_NothingLeftUndelivered ==
    [][/\ (flusher = "loop" /\ flusher' # "loop" /\ fpc = "sending") => todo = {}
       /\ bphase' = "shutdown" => queue' = << >>]_vars

\* a request names a message, or a target signal, that the DBC does not have
Unresolved(call) ==
    \/ ~MessageKnown(call.key)
    \/ call.target # "" /\ ~SignalKnown(call.key, call.target)

\* C27: a start whose message or target signal cannot be resolved fails
\* with NotFound and registers nothing, the target of an out-of-range fault
\* test and of a decimal code sweep included (on a configured transport).
C27_UnresolvedNotFound ==
    [][\A c \in Callers :
          (cpc[c] = "start_insert" /\ cpc'[c] = "idle" /\ configured /\ Unresolved(cop[c]))
          => (cres'[c] = "NotFound" /\ tasks' = tasks)]_vars

\* ---------------------------------------------------------- repeat tasks
\* C26: a repeat task started under a key that has a running repeat task
\* fails with AlreadyRunning, and the running task stays as it is.
C26_RepeatAlreadyRunning ==
    [][\A key \in Keys, period \in Periods :
          (SendPeriodic(key, period, TRUE) /\ configured /\ periodic[key] # NoCyclic)
          => ( /\ pres' = "AlreadyRunning"
               /\ periodic'[key] = periodic[key]
               /\ periodic[key].task \in cyclicLive' )]_vars

\* ------------------------------------------------------ recording queries
\* C23: list() returns one summary for each persisted recording and no
\* other, the newest first, without the events, with eventCount the number
\* of events of the document and duration = endedAt - startedAt.
C23_ListNewestFirst ==
    [][ListLogs =>
          /\ Len(listing') = Cardinality(disk)
          /\ \A d \in disk :
                \E i \in DOMAIN listing' :
                    /\ listing'[i].id = d.id
                    /\ "events" \notin DOMAIN listing'[i]
                    /\ listing'[i].event_count = Len(d.events)
                    /\ listing'[i].duration = d.ended_at - d.started_at
          /\ \A i, j \in DOMAIN listing' : i < j => listing'[i].id > listing'[j].id]_vars

\* the one persisted recording is "t1" with three events stamped 0, 1, 2
ScenarioT1 ==
    /\ active = NoRec
    /\ \E d \in disk :
          /\ disk = {d}
          /\ d.name = "t1"
          /\ Len(d.events) = 3
          /\ \A i \in 1..3 : d.events[i].timestamp = i - 1

\* C24 as stated: after start("t1"), appends of events stamped 0, 1, 2 and
\* stop, list() has one entry, with eventCount = 3 and duration = 2.
C24_DurationTwo ==
    [][(ListLogs /\ ScenarioT1) =>
          /\ Len(listing') = 1
          /\ listing'[1].event_count = 3
          /\ listing'[1].duration = 2]_vars

\* C24 as amended: one entry, eventCount = 3, and the duration is the time
\* from start() to stop(), whatever the events' time stamps.
C24_DurationStartToStop ==
    [][(ListLogs /\ ScenarioT1) =>
          /\ Len(listing') = 1
          /\ listing'[1].event_count = 3
          /\ \A d \in disk : listing'[1].duration = d.ended_at - d.started_at]_vars

\* the scenario's recording, stopped one tick after its last event, listed
C24_Witness ==
    /\ ScenarioT1
    /\ Len(listing) = 1
    /\ listing[1].name = "t1" /\ listing[1].event_count = 3
    /\ listing[1].started_at = 0 /\ listing[1].ended_at = 3 /\ listing[1].duration = 3

\* C25: when stop() has persisted a recording the slot is clear and a new
\* start() succeeds; get(id) returns the document with its events; no later
\* start, append or stop changes or removes a persisted document.
C25_PersistedIsFrozen ==
    [][/\ (StopLog /\ active # NoRec) =>
            (active' = NoRec /\ \E d \in disk' : d.id = active.id /\ d.events = active.events)
       /\ \A name \in Names :
            (StartLog(name) /\ active = NoRec /\ disk # {}) =>
                (lres' = "started" /\ active' # NoRec)
       /\ \A d \in disk : d \in disk'
       /\ \A d \in disk :
            GetLog(d.id) =>
                /\ got' = d
                /\ Len(got'.events) = got'.event_count]_vars

\* the first recording, read back with its events after a second recording
\* was started, fed and persisted
C25_Witness ==
    /\ Cardinality(disk) = 2
    /\ got \in disk /\ got.id = 1 /\ got.events # << >>
    /\ \E d \in disk : d.id = 2 /\ d.events # << >> /\ d.started_at >= got.ended_at

\* ----------------------------------------------------------------- replay
\* the raw points of the replayed document's series, by the decode pattern
RawPoint(k) == IF rlog.decode = "odd" THEN 2 * k - 1 ELSE k
RawCount ==
    IF rlog.decode = "all" THEN rlog.count
    ELSE IF rlog.decode = "odd" THEN (rlog.count + 1) \div 2
    ELSE 0

\* the least s with s * max_points >= m
Stride(m) == CHOOSE s \in 1..(m + 1) : s * max_points >= m /\ (s - 1) * max_points < m

\* C21: a series of M points above the cap keeps exactly the points at the
\* indices 0, s, 2s, ... with s = ceil(M / cap): ceil(M / s) points, never
\* more than the cap, downsampled, originalCount = M; a series within the
\* cap is returned whole and not downsampled.
C21_Decimation ==
    \A i \in DOMAIN replay.series :
        LET entry == replay.series[i]
            m == RawCount
            s == Stride(m)
        IN /\ entry.original_points = m
           /\ entry.downsampled = (m > max_points)
           /\ IF m > max_points
                THEN /\ Len(entry.points) * s >= m
                     /\ (Len(entry.points) - 1) * s < m
                     /\ Len(entry.points) <= max_points
                     /\ \A k \in DOMAIN entry.points : entry.points[k] = RawPoint((k - 1) * s + 1)
              ELSE /\ Len(entry.points) = m
                   /\ \A k \in DOMAIN entry.points : entry.points[k] = RawPoint(k)

\* the series of 12000 points, decimated with stride 3
C21_Witness ==
    /\ rlog = [count |-> 12000, decode |-> "all"]
    /\ replay.series # << >>
    /\ replay.series[1].downsampled
    /\ Len(replay.series[1].points) = 4000
    /\ replay.series[1].points[2] = 4

\* C22: the detailed list is the first min(T, 2000) events in recorded
\* order, events_shown its length, events_total = T; the series draw their
\* points from all T events.
C22_EventCap ==
    /\ replay.events_total = rlog.count
    /\ replay.events_shown = Len(replay.events)
    /\ Len(replay.events) = Min2(rlog.count, max_events)
    /\ \A k \in DOMAIN replay.events : replay.events[k] = k
    /\ \A i \in DOMAIN replay.series : replay.series[i].original_points = RawCount

\* a replay that lists 2000 of 4001 events and has a point of the last event
C22_Witness ==
    /\ rlog.count = 2 * max_events + 1
    /\ replay.events_shown = max_events
    /\ replay.series # << >>
    /\ replay.series[1].points # << >>
    /\ replay.series[1].points[Len(replay.series[1].points)] = rlog.count

C28_NoIOUnderLock ==
    [][io'.kind # "none" => (lockOwner # io'.by /\ lockOwner' # io'.by)]_vars

\* the worker has sent a frame while the caller was inside a lock block
C28_Witness == io = [by |-> "worker", kind |-> "send"] /\ lockOwner = "caller"

\* a status copy shows the fields of one update of a code sweep, or none
Whole(copy) ==
    \/ copy.currentIndex = Null /\ copy.currentCode = << >>
    \/ /\ copy.currentIndex \in 0..(Len(LockCodes) - 1)
       /\ copy.currentCode = FormatCode(LockCodes[copy.currentIndex + 1], ByteLength(LockKey) * 2)

\* C29: no status copy, whether returned by a status query, by start or by
\* stop, shows a progress update half applied.
C29_SnapshotsWhole == Whole(snap.info)

\* ------------------------------------------------------ start against start
\* C31: of two start(k) requests for the same unregistered key that run
\* concurrently on one registry, exactly one succeeds and the other fails
\* with AlreadyRunning; no key ever has two workers launched for it.  (No
\* task is stopped or completes here, so any second success for a key is
\* one too many.)
C31_OneStartWins ==
    /\ \A w1, w2 \in rthreads : w1.key = w2.key => w1 = w2
    /\ \A s1, s2 \in Starters :
          (s1 # s2 /\ rkey[s1] = rkey[s2] /\ rpc[s1] = "idle" /\ rpc[s2] = "idle"
             /\ rres[s1] = "started")
          => rres[s2] # "started"

\* --------------------------------------------------------- delivery order
\* the events a delivered message carries: those of a batch envelope, or
\* the message itself
EventsOf(message) ==
    IF "messages" \in DOMAIN message THEN message.messages ELSE << message >>

RECURSIVE Flat(_)
Flat(messages) ==
    IF messages = << >> THEN << >>
    ELSE EventsOf(Head(messages)) \o Flat(Tail(messages))

\* the events websocket s has received, in the order it received them
Received(s) == Flat(delivered[s])

\* C32: every subscriber receives events in the order in which they were
\* enqueued (the arrival number n), across flushes and inside batch
\* envelopes, and none more than once, whichever producers published them.
C32_DeliveredInOrder ==
    \A s \in Sockets :
        \A i, j \in 1..Len(Received(s)) :
            i < j => Received(s)[i].n < Received(s)[j].n

\* a subscriber has received a batch envelope and a later flush's message,
\* with events of the worker and of the receive thread among them
C32_Witness ==
    \E s \in Sockets :
        /\ Len(delivered[s]) >= 2
        /\ Len(EventsOf(delivered[s][1])) >= 2
        /\ \E i, j \in 1..Len(Received(s)) :
              Received(s)[i].type = "rx" /\ Received(s)[j].type = "tx"

\* -------------------------------------------------------- eventual delivery
\* event number n is in the queue while the loop runs: it was enqueued
\* after the start of the bus and before shutdown began
Enqueued(n) ==
    /\ flusher = "loop"
    /\ \E i \in 1..Len(queue) : queue[i].n = n

Got(s, n) == \E i \in 1..Len(Received(s)) : Received(s)[i].n = n

\* C37: with the flush cycle scheduled fairly, every event enqueued between
\* the start of the bus and the beginning of shutdown reaches every
\* subscriber that stays connected (a subscriber whose delivery fails is
\* removed, so does not stay connected).
C37_EventuallyDelivered ==
    \A n \in 1..MaxEvents, s \in Sockets :
        (Enqueued(n) /\ s \in connections) ~> (Got(s, n) \/ s \notin connections)

\* -------------------------------------------------------------- out of range
\* v is outside the range a signal declares
Outside(v, signal) ==
    \/ signal.maximum # Null /\ v > signal.maximum
    \/ signal.minimum # Null /\ v < signal.minimum

\* C33: the value an out-of-range tick gives its target signal lies strictly
\* outside the signal's declared range, for every range that declares a
\* limit, zero and negative limits included, and every multiplier above 1.
C33_StrictlyOutside ==
    (osignal.declared /\ (osignal.minimum # Null \/ osignal.maximum # Null))
        => Outside(ovalue, osignal)

\* ------------------------------------------------------------- own entry
\* the worker of task t takes a step
WorkerMoves(t) == wpc[t] \in {"check", "tick", "wait", "final", "cleanup", "notify"} /\ wpc'[t] # wpc[t]

\* the registry entries and status dicts a step changes belong to task t
TouchesOnly(t) ==
    /\ \A m \in Mgrs, k \in Keys : tasks'[m][k] # tasks[m][k] => tasks[m][k] = t
    /\ \A u \in TaskIds : (info'[u] # info[u] /\ Registered(u)) => u = t

\* C34: a worker and a stop call remove or modify only the registry entry
\* of their own task, also when the key was started again after a stop that
\* timed out: the old worker's cleanup and final status reset, and the old
\* stop call's removal, leave the new task's entry alone.
C34_OwnEntryOnly ==
    [][/\ \A t \in TaskIds : WorkerMoves(t) => TouchesOnly(t)
       /\ \A c \in Callers : (cpc[c] = "stop_join" /\ cpc'[c] = "idle") => TouchesOnly(ctask[c])]_vars

\* ------------------------------------------------------------- completion
\* C35: a fault worker emits exactly one completion notification, whether
\* its count is exhausted or it was stopped; it emits it as its last
\* statement, so after its last tx event, and after its entry has left the
\* registry.
C35_OneCompletion ==
    [][\A t \in TaskIds :
          /\ completions'[t] > completions[t] =>
                /\ wpc[t] = "notify" /\ wpc'[t] = "done"
                /\ completions[t] = 0 /\ completions'[t] = 1
                /\ ~Registered(t)
          /\ (tdef[t].kind = "fault" /\ wpc[t] # "done" /\ wpc'[t] = "done") =>
                completions'[t] = 1
          /\ (wpc[t] = "cleanup" /\ wpc'[t] # "cleanup") => wpc'[t] = "notify"
          /\ txEvents'[t] > txEvents[t] => wpc[t] = "tick"]_vars

\* one fault worker has ended with its completion notification, another,
\* stopped after a tx event, is about to emit its own
C35_Witness ==
    \E t, u \in TaskIds :
        /\ t # u
        /\ wpc[t] = "done" /\ completions[t] = 1
        /\ wpc[u] = "notify" /\ stopEv[u] /\ txEvents[u] >= 1

\* ---------------------------------------------------------------- progress
\* C36: for every registered fault task 0 <= sentCount <= totalCount in
\* every reachable state, and sentCount never decreases while the task is
\* registered.
C36_SentCountMonotone ==
    [][\A t \in TaskIds :
          (Registered(t) /\ tdef[t].kind = "fault") =>
             /\ 0 <= info[t].sentCount /\ info[t].sentCount <= tdef[t].count
             /\ Registered(t)' => info'[t].sentCount >= info[t].sentCount]_vars

\* ----------------------------------------------------------- failed persist
\* C38: when stop() fails to persist the document, the recording stays
\* open with its events: a start() after it fails with AlreadyActive, and a
\* later stop() persists the events, those accumulated before the failure
\* among them.
C38_FailedPersistKeepsOpen ==
    [][/\ \A truncated \in BOOLEAN :
            StopLogFails(truncated) => (active' = active /\ disk' = disk)
       /\ lres' = "PersistError" => active' # NoRec
       /\ \A name \in Names :
            (StartLog(name) /\ lres = "PersistError") =>
               (lres' = "AlreadyActive" /\ active' = active)
       /\ (StopLog /\ lres = "PersistError") =>
            \E d \in disk' \ disk : d.id = active.id /\ d.events = active.events]_vars

\* a recording whose persist had failed is on disk, with an event in it
C38_Witness ==
    \E d \in disk : d.id \in persistFailed /\ d.events # << >> /\ d.id \notin broken

\* C39: get_status reports configured exactly when a bus is open; configure
\* first shuts the previous bus down and stops every periodic task, and a
\* configure whose can.Bus() fails leaves the manager without bus and
\* without configuration, so that send fails with NotConfigured.
C39_ConfiguredIffBusOpen ==
    /\ [][CanGetStatus => (cstatus' = "configured" <=> bus \in openBuses)]_vars
    /\ [][CanConfigureBegin =>
            /\ bus' = 0 /\ openBuses' = {} /\ ~configured'
            /\ cyclicLive' = {} /\ \A k \in Keys : periodic'[k] = NoCyclic]_vars
    /\ [][CanConfigureOpen(FALSE) => bus' = 0 /\ openBuses' = {} /\ ~configured']_vars
    /\ [][CanSend => (sres' = "NotConfigured" <=> ~(bus \in openBuses))]_vars
    /\ [](canpc = "idle" => (configured <=> bus \in openBuses))
    /\ [](canpc = "idle" /\ cfgres = "error" => ~configured /\ bus = 0)

\* a configure failed after an earlier one had opened a bus on which a
\* periodic task ran; status and send have been asked since
C39_Witness ==
    /\ canpc = "idle" /\ cfgres = "error" /\ nextBus > 1 /\ nextCyclic > 1
    /\ cyclicLive = {} /\ cstatus = "unconfigured" /\ sres = "NotConfigured"

\* C40: the receive thread is started at most once however often configure
\* is called; after shutdown() the loop exits and stays exited, and once
\* shutdown() has been followed by a configure() no message is handed to
\* the callbacks any more.
C40_NoFrameAfterShutdown ==
    /\ [](rxStarts <= 1)
    /\ [][rxpc = "exited" => rxpc' = "exited"]_vars
    /\ [][stopSet /\ RxHead => rxpc' = "exited"]_vars
    /\ [][reopened => lateFrames' = lateFrames]_vars
====
